---- MODULE Spec2Model ----
(***************************************************************************)
(* Verification model of the RAG backend's core:                           *)
(*   - the partition lifecycle cache (RedisMilvusPartitionManager with     *)
(*     its PartitionStateManager),                                         *)
(*   - the debounced flush batcher (AutoFlusher),                          *)
(*   - the cross-store write/delete coordinator (app/api/data.py).         *)
(* The server runs on one asyncio event loop: a task is interleaved with   *)
(* the others only where it awaits a network call or a sleep, so one       *)
(* action is the code of a task from one such await to the next.           *)
(* Synchronous vector-store calls (load, release, flush) block the loop.   *)
(***************************************************************************)
EXTENDS Integers, Sequences, FiniteSets, TLC

\* ------------------------------------------------------------------ bounds
MaxTime == 4        \* clock horizon of the partition model, in ticks of 15 minutes
MaxCalls == 3       \* EnsureLoaded calls issued in one run of the partition model
MaxFlushTime == 52  \* clock horizon of the flusher model, in ticks of 0.1 seconds
MaxOps == 2         \* write/delete requests issued in one run of the coordinator model
MaxParts == 8       \* tracked partitions listed to one memory-pressure pass
MaxDocs == 5        \* documents of one BatchInsert request
MaxFaults == 2      \* calls that raise during one BatchInsert request
MaxEvicts == 2      \* direct unload_partition calls in one run
MaxNames == 3       \* entries of one Delete request list
MaxImmediate == 2   \* flush_immediately calls in one run
MaxShortTime == 14  \* clock bound of the runs with immediate flushes, in 0.1 s
MaxSearches == 5            \* search requests of one run

\* --------------------------------------------------------------- constants
Callers == {"t1", "t2"}     \* request tasks calling ensure_partition_loaded
Keys == {"c/p1", "c/p2"}    \* partition keys "collection/partition"
NoTime == -1                \* a missing timestamp (None)
TtlTicks == 2               \* PARTITION_TTL_MINUTES = 30, one tick = 15 minutes
KeyExpireTicks == 4         \* redis expiry of 3600 seconds
Colls == {"coll"}           \* collection names handed to the flusher
DelayTicks == 5             \* delay_seconds = 0.5
MaxWaitTicks == 50          \* max_wait_seconds = 5
PollTicks == 1              \* asyncio.sleep(0.1) of the flush loop
Reqs == {"r1", "r2"}        \* request tasks of the write/delete handlers
Bots == {"b1", "b2"}        \* chat_bot_id values
Names == {"http://u", "https://u"}   \* content_name values
MaxRetries == 3             \* max_retries=3 of the retry-wrapped calls
Backoffs == {1, 2, 3}       \* backoff values of the calls, in seconds (default 2.0)
LcColls == {"a", "b"}       \* collections of the runs with shutdown

VARIABLES
    now,            \* wall clock (datetime.now()), in ticks
    milvusLoaded,   \* keys whose partition is loaded in the vector store
    tracked,        \* keys whose redis partition hash exists
    pkExp,          \* expiry deadline of the partition hash (0: no key)
    accessT,        \* value of the redis access-time key (NoTime: no key)
    akExp,          \* expiry deadline of the access-time key (0: no key)
    locked,         \* keys whose asyncio.Lock is held
    pc,             \* position of each caller inside ensure_partition_loaded
    ckey,           \* key of the caller's current call
    cforce,         \* force_reload of the caller's current call
    ccap,           \* datetime.now() captured by set_partition_loaded
    result,         \* which return statement the last call took ("none": running)
    cl,             \* the background cleanup loop: position and locals
    calls,          \* history: EnsureLoaded calls issued so far
    loadCalls,      \* history: load calls issued to the vector store, per key
    disturbed       \* history: the key was evicted (released, untracked, expired),
                    \* force-reloaded, or a load of it raised

VARIABLES
    fnow,           \* wall clock of the flusher model, in ticks of 0.1 seconds
    dirty,          \* collections_to_flush
    lastChange,     \* last_change_time per collection (NoTime: no entry)
    lastFlush,      \* last_flush_time per collection (NoTime: no entry)
    wake,           \* time at which the flush loop's asyncio.sleep returns
    dirtySince,     \* history: time of the mark that made the collection dirty
    flushFailed     \* history: a flush call raised

flVars == <<fnow, dirty, lastChange, lastFlush, wake, dirtySince, flushFailed>>

VARIABLES
    docOf,          \* relational store: document of each doc_id ever committed
    rows,           \* relational store: doc_ids whose Document row exists
    vecs,           \* vector store: copies of a document's chunk vectors, per doc_id
    nextId,         \* relational store: next value of the doc_id sequence
    req,            \* the requests in flight: position and locals of each handler
    ops,            \* history: requests started
    marks,          \* history: mark_for_flush calls made by the handlers
    embeds          \* history: embedding requests made by the handlers

sgVars == <<docOf, rows, vecs, nextId, req, ops, marks, embeds>>

VARIABLES
    mN,             \* memory pass alone: number of partitions in the listing
    mAcc,           \* memory pass alone: access_time of each listed partition
    mHigh,          \* memory pass alone: utilization was above the threshold
    mTodo,          \* memory pass alone: sorted_partitions[:unload_count] still to do
    mTried,         \* history: partitions handed to unload_partition, in order
    mEvicted,       \* history: partitions whose unload succeeded
    mLowAt,         \* history: number of unloads after which memory was low (0: never)
    mPc             \* memory pass alone: "sleep", "unload" or "done"

memVars == <<mN, mAcc, mHigh, mTodo, mTried, mEvicted, mLowAt, mPc>>

VARIABLES
    suPc,           \* startup reload: "off", "reload", "touch" or "done"
    suTracked,      \* startup reload: partitions whose redis partition hash exists
    suLoaded,       \* startup reload: partitions loaded in the vector store
    suTodo,         \* startup reload: partition_names still to touch
    suTracked0,     \* history: suTracked when the process started
    suLoaded0,      \* history: suLoaded when the process started
    suTouched       \* history: partitions whose access time the pass refreshed

suVars == <<suPc, suTracked, suLoaded, suTodo, suTracked0, suLoaded0, suTouched>>

VARIABLES
    bPc,            \* batch insert: position of batch_insert_documents
    bNames,         \* batch insert: content_name of each document of the request
    bRowNames,      \* relational store: content names that have a Document row
    bRowOf,         \* relational store: request documents whose row exists
    bVecOf,         \* vector store: request documents with vectors written
    bUnique,        \* batch insert: unique_docs (indices into the request)
    bIdx,           \* batch insert: position of the loop in unique_docs
    bSkipped,       \* batch insert: failed_docs (duplicates of the pre-check)
    bOk,            \* batch insert: successful_docs
    bFailed,        \* batch insert: failed_processing_docs
    bResp,          \* batch insert: the response returned
    bMarked,        \* history: mark_for_flush was called
    bWhy,           \* history: the step that failed, per document
    bCompFailed,    \* history: documents whose compensating delete raised
    bFaults         \* history: injected failures so far

bVars == <<bPc, bNames, bRowNames, bRowOf, bVecOf, bUnique, bIdx, bSkipped, bOk,
           bFailed, bResp, bMarked, bWhy, bCompFailed, bFaults>>

pmVars == <<now, milvusLoaded, tracked, pkExp, accessT, akExp, locked,
            pc, ckey, cforce, ccap, result, cl, calls, loadCalls, disturbed>>

\* what the actions of one component leave alone
VARIABLES
    fmMeta,         \* metadata split: request.metadata of the Insert
    fmAllow,        \* metadata split: settings.MILVUS_METADATA_FIELDS
    fmVec,          \* metadata split: metadata written with each vector entity
    fmRow           \* metadata split: metadata column of the Document row

fmVars == <<fmMeta, fmAllow, fmVec, fmRow>>

VARIABLES
    rtPc,           \* retry wrapper: "idle", "try", "sleep", "returned", "raised", "none"
    rtWrapper,      \* retry wrapper: which of the three wrappers was called
    rtN,            \* retry wrapper: max_retries of the call
    rtAttempt,      \* retry wrapper: the loop variable attempt
    rtErrs,         \* history: the error raised by each failed attempt, in order
    rtCalls,        \* history: invocations of the underlying action
    rtOut,          \* retry wrapper: the value returned or the error raised
    rtBackoff,      \* retry wrapper: backoff of the call, in seconds
    rtWaits,        \* history: the durations handed to asyncio.sleep, in order
    rtWaited        \* history: seconds slept so far

rtVars == <<rtPc, rtWrapper, rtN, rtAttempt, rtErrs, rtCalls, rtOut, rtBackoff, rtWaits, rtWaited>>

VARIABLES
    ev              \* a direct unload_partition call: position, key, result, count

evVars == <<ev>>

VARIABLES
    dr              \* one Delete request taken alone: request list, stored names, response

drVars == <<dr>>

VARIABLES
    imm             \* flush_immediately calls: how many, and how the last one ended

immVars == <<imm>>

VARIABLES
    lc,             \* the flush batcher as a task: flag, lock, marks, the flush in progress
    cu              \* the cleanup loop as a task: flag, position, the last pass

lifeVars == <<lc, cu>>

VARIABLES
    sr              \* the search handler: position, request count, what it saw and did

srVars == <<sr>>

nonPM == <<flVars, sgVars, memVars, suVars, bVars, fmVars, rtVars, evVars, drVars, immVars, lifeVars, srVars>>
nonFL == <<pmVars, sgVars, memVars, suVars, bVars, fmVars, rtVars, evVars, drVars, immVars, lifeVars, srVars>>
nonSG == <<pmVars, flVars, memVars, suVars, bVars, fmVars, rtVars, evVars, drVars, immVars, lifeVars, srVars>>
nonMem == <<pmVars, flVars, sgVars, suVars, bVars, fmVars, rtVars, evVars, drVars, immVars, lifeVars, srVars>>
nonSu == <<pmVars, flVars, sgVars, memVars, bVars, fmVars, rtVars, evVars, drVars, immVars, lifeVars, srVars>>
nonB == <<pmVars, flVars, sgVars, memVars, suVars, fmVars, rtVars, evVars, drVars, immVars, lifeVars, srVars>>
nonFm == <<pmVars, flVars, sgVars, memVars, suVars, bVars, rtVars, evVars, drVars, immVars, lifeVars, srVars>>
nonRt == <<pmVars, flVars, sgVars, memVars, suVars, bVars, fmVars, evVars, drVars, immVars, lifeVars, srVars>>
nonDr == <<pmVars, flVars, sgVars, memVars, suVars, bVars, fmVars, rtVars, evVars, immVars, lifeVars, srVars>>
nonFLImm == <<pmVars, sgVars, memVars, suVars, bVars, fmVars, rtVars, evVars, drVars, lifeVars, srVars>>
nonPMEv == <<flVars, sgVars, memVars, suVars, bVars, fmVars, rtVars, drVars, immVars, lifeVars, srVars>>
nonLife == <<pmVars, flVars, sgVars, memVars, suVars, bVars, fmVars, rtVars, evVars, drVars, immVars, srVars>>
nonSr == <<pmVars, flVars, sgVars, memVars, suVars, bVars, fmVars, rtVars, evVars, drVars, immVars, lifeVars>>

\* ------------------------------------------------------- tracking store view
\* PartitionStateManager.is_partition_loaded: EXISTS on the partition hash.
IsTracked(k) == k \in tracked

\* get_expired_partitions: time_diff > ttl_threshold, with `cap` the captured
\* now; a partition without access time is never expired.
IsExpiredAt(cap, t) == t # NoTime /\ cap - t > TtlTicks

ClIdle == [pc |-> "sleep", cap |-> 0, toRead |-> {}, acc |-> [k \in Keys |-> NoTime],
           todo |-> <<>>, failed |-> {}]

InitPM ==
    /\ now = 0
    /\ milvusLoaded = {}
    /\ tracked = {}
    /\ pkExp = [k \in Keys |-> 0]
    /\ accessT = [k \in Keys |-> NoTime]
    /\ akExp = [k \in Keys |-> 0]
    /\ locked = {}
    /\ pc = [c \in Callers |-> "idle"]
    /\ ckey = [c \in Callers |-> "c/p1"]
    /\ cforce = [c \in Callers |-> FALSE]
    /\ ccap = [c \in Callers |-> 0]
    /\ result = [c \in Callers |-> "none"]
    /\ cl = ClIdle
    /\ calls = 0
    /\ loadCalls = [k \in Keys |-> 0]
    /\ disturbed = [k \in Keys |-> FALSE]

\* ---------------------------------------------------------------- helpers
callerVars == <<pc, ckey, cforce, ccap, result>>
histVars == <<calls, loadCalls, disturbed>>
redisVars == <<tracked, pkExp, accessT, akExp>>

\* A return statement of ensure_partition_loaded; r names the statement taken,
\* "false" is `return False`, every other value is a `return True`.
Return(c, r) ==
    /\ pc' = [pc EXCEPT ![c] = "done"]
    /\ result' = [result EXCEPT ![c] = r]
    /\ cforce' = [cforce EXCEPT ![c] = FALSE]
    /\ ccap' = [ccap EXCEPT ![c] = 0]

\* update_access_time: SET access_key now EX 3600
TouchAccess(k) ==
    /\ accessT' = [accessT EXCEPT ![k] = now]
    /\ akExp' = [akExp EXCEPT ![k] = now + KeyExpireTicks]

\* (mutant) the partition hash is deleted and the access key is stamped
UntrackStamps(S) ==
    /\ tracked' = tracked \ S
    /\ pkExp' = [k \in Keys |-> IF k \in S THEN 0 ELSE pkExp[k]]
    /\ accessT' = [k \in Keys |-> IF k \in S THEN now ELSE accessT[k]]
    /\ akExp' = [k \in Keys |-> IF k \in S THEN now + KeyExpireTicks ELSE akExp[k]]

\* (mutant) the pipeline deletes the access key and leaves the partition hash
UntrackAccessOnly(S) ==
    /\ UNCHANGED <<tracked, pkExp>>
    /\ accessT' = [k \in Keys |-> IF k \in S THEN NoTime ELSE accessT[k]]
    /\ akExp' = [k \in Keys |-> IF k \in S THEN 0 ELSE akExp[k]]

\* set_partition_unloaded / cleanup pipeline: DEL of the keys of each k in S
Untrack(S) ==
    /\ tracked' = tracked \ S
    /\ pkExp' = [k \in Keys |-> IF k \in S THEN 0 ELSE pkExp[k]]
    /\ accessT' = [k \in Keys |-> IF k \in S THEN NoTime ELSE accessT[k]]
    /\ akExp' = [k \in Keys |-> IF k \in S THEN 0 ELSE akExp[k]]

\* ------------------------------------- RedisMilvusPartitionManager: EnsureLoaded
\* (mutant) the first check never answers "already loaded"
AlreadyLoadedNever(f, k) == FALSE

\* `if not force_reload and is_loaded` (line 70): the call needs no load.
AlreadyLoaded(f, k) == ~f /\ IsTracked(k)

\* (mutant) one lock for all keys
LockFreeGlobal(k) == locked = {} /\ ~\E o \in Callers : pc[o] = "lock"

\* asyncio.Lock.acquire returns at once when the lock is free and nobody waits.
LockFree(k) == k \notin locked /\ ~\E o \in Callers : pc[o] = "lock" /\ ckey[o] = k

\* line 68-77: a request enters ensure_partition_loaded(collection, partition,
\* force_reload); the first is_partition_loaded answers.  Tracked and not
\* forced: the fast path goes on to update_access_time.  Otherwise the task
\* enters `async with lock`, waiting if the lock is taken.
StartCall(c, k, f) ==
    /\ pc[c] \in {"idle", "done"}
    /\ calls < MaxCalls
    /\ calls' = calls + 1
    /\ ckey' = [ckey EXCEPT ![c] = k]
    /\ result' = [result EXCEPT ![c] = "none"]
    /\ disturbed' = [disturbed EXCEPT ![k] = @ \/ f]
    /\ IF AlreadyLoaded(f, k)
       THEN /\ pc' = [pc EXCEPT ![c] = "touch1"]
            /\ UNCHANGED <<locked, cforce>>
       ELSE /\ cforce' = [cforce EXCEPT ![c] = f]
            /\ IF LockFree(k)
               THEN /\ locked' = locked \cup {k}
                    /\ pc' = [pc EXCEPT ![c] = "check2"]
               ELSE /\ pc' = [pc EXCEPT ![c] = "lock"]
                    /\ UNCHANGED locked
    /\ UNCHANGED <<now, milvusLoaded, redisVars, ccap, cl, loadCalls>>
    /\ UNCHANGED nonPM

\* line 72-74: fast path, update_access_time and return True
Touch1(c) ==
    /\ pc[c] = "touch1"
    /\ TouchAccess(ckey[c])
    /\ Return(c, "fast")
    /\ UNCHANGED <<now, milvusLoaded, tracked, pkExp, locked, ckey, cl, histVars>>
    /\ UNCHANGED nonPM

\* line 77: a waiting task gets the released lock
AcquireLock(c) ==
    /\ pc[c] = "lock"
    /\ ckey[c] \notin locked
    /\ locked' = locked \cup {ckey[c]}
    /\ pc' = [pc EXCEPT ![c] = "check2"]
    /\ UNCHANGED <<now, milvusLoaded, redisVars, ckey, cforce, ccap, result, cl, histVars>>
    /\ UNCHANGED nonPM

\* ensure_partition_loaded without the re-check under the lock
RecheckSkipped(c) == FALSE

\* line 79-80: the state is read again under the lock
Recheck(c) == AlreadyLoaded(cforce[c], ckey[c])

\* (mutant) the lock is not released when the load raises
LoadOutcomeKeepsLock(c, out) ==
    LET k == ckey[c] IN
    /\ loadCalls' = [loadCalls EXCEPT ![k] = IF out = "nocoll" THEN @ ELSE @ + 1]
    /\ IF out = "ok"
       THEN /\ milvusLoaded' = milvusLoaded \cup {k}
            /\ ccap' = [ccap EXCEPT ![c] = now]
            /\ pc' = [pc EXCEPT ![c] = "setExists"]
            /\ UNCHANGED <<locked, result, cforce, disturbed>>
       ELSE /\ UNCHANGED <<milvusLoaded, locked>>
            /\ disturbed' = [disturbed EXCEPT ![k] = TRUE]
            /\ Return(c, "false")

\* line 90-94: Collection(...), collection.partition(...), partition.load(),
\* all synchronous.  out = "ok": the load call succeeds; "fail": the load call
\* raises; "nocoll": the collection lookup raises before a load call is issued.
\* After a load set_partition_loaded captures datetime.now() (redis_client.py
\* line 91); an exception is caught at line 103-105: return False.
LoadOutcome(c, out) ==
    LET k == ckey[c] IN
    /\ loadCalls' = [loadCalls EXCEPT ![k] = IF out = "nocoll" THEN @ ELSE @ + 1]
    /\ IF out = "ok"
       THEN /\ milvusLoaded' = milvusLoaded \cup {k}
            /\ ccap' = [ccap EXCEPT ![c] = now]
            /\ pc' = [pc EXCEPT ![c] = "setExists"]
            /\ UNCHANGED <<locked, result, cforce, disturbed>>
       ELSE /\ UNCHANGED milvusLoaded
            /\ locked' = locked \ {k}
            /\ disturbed' = [disturbed EXCEPT ![k] = TRUE]
            /\ Return(c, "false")

\* line 79-97: the second is_partition_loaded answers under the lock; a
\* tracked partition goes on to update_access_time, otherwise the load runs.
Check2(c) ==
    /\ pc[c] = "check2"
    /\ IF Recheck(c)
       THEN /\ pc' = [pc EXCEPT ![c] = "touch2"]
            /\ UNCHANGED <<milvusLoaded, locked, cforce, ccap, result, histVars>>
       ELSE /\ \E out \in {"ok", "fail", "nocoll"} : LoadOutcome(c, out)
            /\ UNCHANGED calls
    /\ UNCHANGED <<now, redisVars, ckey, cl>>
    /\ UNCHANGED nonPM

\* line 81-83: loaded by another task while waiting
Touch2(c) ==
    /\ pc[c] = "touch2"
    /\ TouchAccess(ckey[c])
    /\ locked' = locked \ {ckey[c]}
    /\ Return(c, "dcl")
    /\ UNCHANGED <<now, milvusLoaded, tracked, pkExp, ckey, cl, histVars>>
    /\ UNCHANGED nonPM

\* redis_client.py line 97-101: force_update is False, so an existing hash
\* makes set_partition_loaded return without writing anything.
SetExists(c) ==
    /\ pc[c] = "setExists"
    /\ IF IsTracked(ckey[c])
       THEN /\ locked' = locked \ {ckey[c]}
            /\ Return(c, "loadedKept")
       ELSE /\ pc' = [pc EXCEPT ![c] = "setPipe"]
            /\ UNCHANGED <<locked, result, cforce, ccap>>
    /\ UNCHANGED <<now, milvusLoaded, redisVars, ckey, cl, histVars>>
    /\ UNCHANGED nonPM

\* redis_client.py line 107-120: HSET + SET access + SET load + EXPIRE 3600,
\* then line 97-101 of the manager: return True, leaving the lock.
SetPipe(c) ==
    LET k == ckey[c] IN
    /\ pc[c] = "setPipe"
    /\ tracked' = tracked \cup {k}
    /\ pkExp' = [pkExp EXCEPT ![k] = now + KeyExpireTicks]
    /\ accessT' = [accessT EXCEPT ![k] = ccap[c]]
    /\ akExp' = [akExp EXCEPT ![k] = now + KeyExpireTicks]
    /\ locked' = locked \ {k}
    /\ Return(c, "loaded")
    /\ UNCHANGED <<now, milvusLoaded, ckey, cl, histVars>>
    /\ UNCHANGED nonPM

\* ------------------------------------------------------------------- time
\* The clock advances; redis drops the keys whose expiry deadline is reached.
\* A tick is 15 minutes while a call or a cleanup pass lasts seconds: the
\* clock moves between them, not inside them.
Tick ==
    LET hashGone == {k \in tracked : pkExp[k] <= now + 1}
        accGone == {k \in Keys : accessT[k] # NoTime /\ akExp[k] <= now + 1}
    IN
    /\ now < MaxTime
    /\ cl.pc = "sleep"
    /\ \A c \in Callers : pc[c] \in {"idle", "done"}
    /\ now' = now + 1
    /\ tracked' = tracked \ hashGone
    /\ pkExp' = [k \in Keys |-> IF k \in hashGone THEN 0 ELSE pkExp[k]]
    /\ accessT' = [k \in Keys |-> IF k \in accGone THEN NoTime ELSE accessT[k]]
    /\ akExp' = [k \in Keys |-> IF k \in accGone THEN 0 ELSE akExp[k]]
    /\ disturbed' = [k \in Keys |-> disturbed[k] \/ k \in hashGone]
    /\ UNCHANGED <<milvusLoaded, locked, callerVars, cl, calls, loadCalls>>
    /\ UNCHANGED nonPM

\* ------------------------------- RedisMilvusPartitionManager: cleanup loop
\* sorted(all_partitions.items(), key=access_time) is stable: insertion of x
\* behind every element of s that is not greater.
RECURSIVE Insert(_, _, _)
Insert(x, s, f) ==
    IF s = <<>> THEN <<x>>
    ELSE IF f[Head(s)] <= f[x] THEN <<Head(s)>> \o Insert(x, Tail(s), f)
    ELSE <<x>> \o s

RECURSIVE SortByAccess(_, _)
SortByAccess(s, f) ==
    IF s = <<>> THEN <<>>
    ELSE Insert(s[Len(s)], SortByAccess(SubSeq(s, 1, Len(s) - 1), f), f)

\* (mutant) half of the partitions instead of a quarter
UnloadCountHalf(n) == IF n \div 2 > 1 THEN n \div 2 ELSE 1

\* unload_count = max(1, len(sorted_partitions) // 4)
UnloadCount(n) == IF n \div 4 > 1 THEN n \div 4 ELSE 1

Prefix(s, n) == SubSeq(s, 1, IF n < Len(s) THEN n ELSE Len(s))

SeqSet(s) == {s[i] : i \in 1..Len(s)}

\* unload_partition line 123-137 for the keys of s in turn: a release that
\* raises makes unload_partition return False without an await, and the
\* caller's loop goes on; F holds the keys whose release raises.
RECURSIVE DropFailing(_, _)
DropFailing(s, F) ==
    IF s = <<>> THEN <<>>
    ELSE IF Head(s) \in F THEN DropFailing(Tail(s), F) ELSE s

\* auto_cleanup_loop line 443 after _cleanup_by_ttl returned:
\* _check_memory_and_cleanup reads psutil (line 485-487); high = utilization
\* above MEMORY_THRESHOLD_PERCENT, then get_all_loaded_partitions is awaited.
AfterTtl(high) == IF high THEN [ClIdle EXCEPT !.pc = "memKeys"] ELSE ClIdle

\* get_all_loaded_partitions line 185-186: KEYS milvus:partitions:*
ScanStart(nextPc) ==
    [ClIdle EXCEPT !.pc = nextPc, !.cap = now, !.toRead = tracked, !.failed = cl.failed]

\* the scan's result after its last read: keys in scan order, access times
ScanOrder(k) == Append(cl.todo, k)
ScanAcc(k) == [cl.acc EXCEPT ![k] = accessT[k]]

\* get_expired_partitions line 226-237
ExpiredSeq(order, acc, cap) == SelectSeq(order, LAMBDA k : IsExpiredAt(cap, acc[k]))

\* _cleanup_by_ttl line 456: the loop wakes, get_expired_partitions captures
\* now and lists the keys.  No key: no expired partition, return (line 462).
TtlStart(high) ==
    /\ cl.pc = "sleep"
    /\ IF tracked = {}
       THEN cl' = AfterTtl(high)
       ELSE /\ ~high
            /\ cl' = ScanStart("ttlScan")
    /\ UNCHANGED <<now, milvusLoaded, redisVars, locked, callerVars, histVars>>
    /\ UNCHANGED nonPM

\* redis_client.py line 199-200: HGETALL + GET access key of one listed key,
\* more keys being left to read
ScanRead(k) ==
    /\ cl.pc \in {"ttlScan", "cl2Scan", "memScan"}
    /\ k \in cl.toRead
    /\ cl.toRead # {k}
    /\ cl' = [cl EXCEPT !.toRead = @ \ {k}, !.acc = ScanAcc(k), !.todo = ScanOrder(k)]
    /\ UNCHANGED <<now, milvusLoaded, redisVars, locked, callerVars, histVars>>
    /\ UNCHANGED nonPM

\* _cleanup_by_ttl line 469-477: release the next partition of s whose release
\* does not raise and go on to await set_partition_unloaded; with none left,
\* go on to cleanup_expired_partitions.  D: keys untracked in the same step.
\* cl.failed is history: the keys whose unload_partition returned False in
\* this pass.
TtlUnloadFrom(s, F, D) ==
    LET r == DropFailing(s, F)
        failed == cl.failed \cup SeqSet(SubSeq(s, 1, Len(s) - Len(r)))
    IN
    IF r = <<>>
    THEN /\ cl' = [ClIdle EXCEPT !.pc = "cl2Keys", !.failed = failed]
         /\ disturbed' = [k \in Keys |-> disturbed[k] \/ k \in D]
         /\ UNCHANGED milvusLoaded
    ELSE /\ cl' = [ClIdle EXCEPT !.pc = "ttlUntrack", !.todo = r, !.failed = failed]
         /\ disturbed' = [k \in Keys |-> disturbed[k] \/ k \in D \/ k = Head(r)]
         /\ milvusLoaded' = milvusLoaded \ {Head(r)}

\* the last read of get_expired_partitions, line 462-474: nothing expired is
\* a return; otherwise the unloading starts in the same step
TtlScanLast(k, F, high) ==
    LET expired == ExpiredSeq(ScanOrder(k), ScanAcc(k), cl.cap) IN
    /\ cl.pc = "ttlScan"
    /\ cl.toRead = {k}
    /\ IF expired = <<>>
       THEN /\ F = {}
            /\ cl' = AfterTtl(high)
            /\ UNCHANGED <<milvusLoaded, disturbed>>
       ELSE /\ ~high
            /\ F \subseteq SeqSet(expired)
            /\ TtlUnloadFrom(expired, F, {})
    /\ UNCHANGED <<now, redisVars, locked, callerVars, calls, loadCalls>>
    /\ UNCHANGED nonPM

\* unload_partition line 130: set_partition_unloaded answers, the loop goes on
TtlUntrack(F) ==
    /\ cl.pc = "ttlUntrack"
    /\ F \subseteq SeqSet(Tail(cl.todo))
    /\ Untrack({Head(cl.todo)})
    /\ TtlUnloadFrom(Tail(cl.todo), F, {Head(cl.todo)})
    /\ UNCHANGED <<now, locked, callerVars, calls, loadCalls>>
    /\ UNCHANGED nonPM

\* _cleanup_by_ttl line 477: cleanup_expired_partitions runs
\* get_expired_partitions again, with a fresh now and a fresh listing
Cl2Start(high) ==
    /\ cl.pc = "cl2Keys"
    /\ IF tracked = {}
       THEN cl' = AfterTtl(high)
       ELSE /\ ~high
            /\ cl' = ScanStart("cl2Scan")
    /\ UNCHANGED <<now, milvusLoaded, redisVars, locked, callerVars, histVars>>
    /\ UNCHANGED nonPM

\* redis_client.py line 246-250: the second listing is complete; nothing
\* expired is a return, otherwise the delete pipeline is sent
Cl2ScanLast(k, high) ==
    LET expired == ExpiredSeq(ScanOrder(k), ScanAcc(k), cl.cap) IN
    /\ cl.pc = "cl2Scan"
    /\ cl.toRead = {k}
    /\ IF expired = <<>>
       THEN cl' = AfterTtl(high)
       ELSE /\ ~high
            /\ cl' = [ClIdle EXCEPT !.pc = "cl2Del", !.todo = expired,
                                    !.failed = cl.failed]
    /\ UNCHANGED <<now, milvusLoaded, redisVars, locked, callerVars, histVars>>
    /\ UNCHANGED nonPM

\* redis_client.py line 255-266: one pipeline deletes the keys of every
\* partition the second listing found expired; nothing is released
Cl2Delete(high) ==
    /\ cl.pc = "cl2Del"
    /\ Untrack(SeqSet(cl.todo))
    /\ disturbed' = [k \in Keys |-> disturbed[k] \/ k \in SeqSet(cl.todo)]
    /\ cl' = AfterTtl(high)
    /\ UNCHANGED <<now, milvusLoaded, locked, callerVars, calls, loadCalls>>
    /\ UNCHANGED nonPM

\* _check_memory_and_cleanup line 492-496: the listing of the memory pass
MemKeys ==
    /\ cl.pc = "memKeys"
    /\ cl' = IF tracked = {} THEN ClIdle ELSE ScanStart("memScan")
    /\ UNCHANGED <<now, milvusLoaded, redisVars, locked, callerVars, histVars>>
    /\ UNCHANGED nonPM

\* line 499-502: a None access time cannot be compared: with two or more
\* partitions sorted() raises and the pass ends in the except of line 521.
SortRaises(order, acc) == Len(order) > 1 /\ \E k \in SeqSet(order) : acc[k] = NoTime

\* line 505-508: the partitions the memory pass will unload, oldest first
MemVictims(order, acc) == Prefix(SortByAccess(order, acc), UnloadCount(Len(order)))

\* line 508-519: release the next partition of s whose release does not raise
\* and go on to await set_partition_unloaded.  After a failed unload the
\* memory is read again: brk = it fell below the threshold (break).
MemUnloadFrom(s, F, brk, D) ==
    LET r == DropFailing(s, F) IN
    IF r = <<>> \/ (brk /\ r # s)
    THEN /\ cl' = ClIdle
         /\ disturbed' = [k \in Keys |-> disturbed[k] \/ k \in D]
         /\ UNCHANGED milvusLoaded
    ELSE /\ cl' = [ClIdle EXCEPT !.pc = "memUntrack", !.todo = r]
         /\ disturbed' = [k \in Keys |-> disturbed[k] \/ k \in D \/ k = Head(r)]
         /\ milvusLoaded' = milvusLoaded \ {Head(r)}

\* the last read of the memory pass listing, then line 499-513
MemScanLast(k, F, brk) ==
    /\ cl.pc = "memScan"
    /\ cl.toRead = {k}
    /\ IF SortRaises(ScanOrder(k), ScanAcc(k))
       THEN /\ F = {} /\ ~brk
            /\ cl' = ClIdle
            /\ UNCHANGED <<milvusLoaded, disturbed>>
       ELSE /\ F \subseteq SeqSet(MemVictims(ScanOrder(k), ScanAcc(k)))
            /\ brk => F # {}
            /\ MemUnloadFrom(MemVictims(ScanOrder(k), ScanAcc(k)), F, brk, {})
    /\ UNCHANGED <<now, redisVars, locked, callerVars, calls, loadCalls>>
    /\ UNCHANGED nonPM

\* unload_partition line 130 inside the memory pass, then the memory is read
\* again (line 514-517): low = below the threshold, the pass stops.
MemUntrack(F, low, brk) ==
    /\ cl.pc = "memUntrack"
    /\ Untrack({Head(cl.todo)})
    /\ IF low
       THEN /\ F = {} /\ ~brk
            /\ cl' = ClIdle
            /\ disturbed' = [disturbed EXCEPT ![Head(cl.todo)] = TRUE]
            /\ UNCHANGED milvusLoaded
       ELSE /\ F \subseteq SeqSet(Tail(cl.todo))
            /\ brk => F # {}
            /\ MemUnloadFrom(Tail(cl.todo), F, brk, {Head(cl.todo)})
    /\ UNCHANGED <<now, locked, callerVars, calls, loadCalls>>
    /\ UNCHANGED nonPM

PMNext ==
    \/ \E c \in Callers, k \in Keys, f \in BOOLEAN : StartCall(c, k, f)
    \/ \E c \in Callers : Touch1(c)
    \/ \E c \in Callers : AcquireLock(c)
    \/ \E c \in Callers : Check2(c)
    \/ \E c \in Callers : Touch2(c)
    \/ \E c \in Callers : SetExists(c)
    \/ \E c \in Callers : SetPipe(c)
    \/ \E high \in BOOLEAN : TtlStart(high)
    \/ \E k \in Keys : ScanRead(k)
    \/ \E k \in Keys, F \in SUBSET Keys, high \in BOOLEAN : TtlScanLast(k, F, high)
    \/ \E F \in SUBSET Keys : TtlUntrack(F)
    \/ \E high \in BOOLEAN : Cl2Start(high)
    \/ \E k \in Keys, high \in BOOLEAN : Cl2ScanLast(k, high)
    \/ \E high \in BOOLEAN : Cl2Delete(high)
    \/ MemKeys
    \/ \E k \in Keys, F \in SUBSET Keys, brk \in BOOLEAN : MemScanLast(k, F, brk)
    \/ \E F \in SUBSET Keys, low \in BOOLEAN, brk \in BOOLEAN : MemUntrack(F, low, brk)
    \/ Tick


\* ------------------------------------------------------------ AutoFlusher
\* _flush_lock is never contended: mark_for_flush holds it without awaiting,
\* and _check_and_flush awaits only _flush_collections, which never suspends
\* (Collection.flush is synchronous).
InitFL ==
    /\ fnow = 0
    /\ dirty = {}
    /\ lastChange = [c \in Colls |-> NoTime]
    /\ lastFlush = [c \in Colls |-> NoTime]
    /\ wake = 0
    /\ dirtySince = [c \in Colls |-> NoTime]
    /\ flushFailed = FALSE

\* mark_for_flush, line 43-45
MarkDirty(c) ==
    /\ dirty' = dirty \cup {c}
    /\ lastChange' = [lastChange EXCEPT ![c] = fnow]
    /\ dirtySince' = [dirtySince EXCEPT ![c] = IF c \in dirty THEN @ ELSE fnow]
    /\ UNCHANGED <<fnow, lastFlush, wake, flushFailed>>
    /\ UNCHANGED nonFL

\* line 89, 93: time_since_change, last_change defaulting to current_time
SinceChange(c) == IF lastChange[c] = NoTime THEN 0 ELSE fnow - lastChange[c]

\* line 90, 96: last_flush defaults to datetime.min, so a collection that was
\* never flushed is at least max_wait_seconds past its last flush
FlushOverdue(c) == lastFlush[c] = NoTime \/ fnow - lastFlush[c] >= MaxWaitTicks

\* should_flush without the max_wait_seconds condition
ShouldFlushDelayOnly(c) == SinceChange(c) >= DelayTicks

\* line 98-101: should_flush
ShouldFlush(c) == SinceChange(c) >= DelayTicks \/ FlushOverdue(c)

\* start line 62-69 with _check_and_flush and _flush_collections: the loop
\* wakes, flushes every dirty collection that is due and sleeps 0.1 s again.
\* ok: the collections whose flush call succeeds; a flush that raises is
\* logged and leaves the mark and last_flush_time as they are (line 128-129).
Poll(ok) ==
    LET due == {c \in dirty : ShouldFlush(c)} IN
    /\ wake <= fnow
    /\ ok \subseteq due
    /\ dirty' = dirty \ ok
    /\ lastFlush' = [c \in Colls |-> IF c \in ok THEN fnow ELSE lastFlush[c]]
    /\ flushFailed' = (flushFailed \/ ok # due)
    /\ wake' = fnow + PollTicks
    /\ UNCHANGED <<fnow, lastChange, dirtySince>>
    /\ UNCHANGED nonFL

\* the clock advances, unless the loop's sleep is over: the loop runs first
FlushTick ==
    /\ fnow < MaxFlushTime
    /\ fnow < wake
    /\ fnow' = fnow + 1
    /\ UNCHANGED <<dirty, lastChange, lastFlush, wake, dirtySince, flushFailed>>
    /\ UNCHANGED nonFL

FLNext ==
    \/ \E c \in Colls : MarkDirty(c)
    \/ \E ok \in SUBSET Colls : Poll(ok)
    \/ FlushTick


\* ------------------------------------ write/delete coordinator (api/data.py)
\* a request commits at most two documents (a batch of two)
MaxIds == 2 * MaxOps
DocIds == 1..MaxIds
NoDoc == [bot |-> "", name |-> ""]

ReqIdle == [op |-> "none", pc |-> "idle", bot |-> "", names |-> <<>>, ids |-> <<>>,
            existing |-> {}, requested |-> 0, attempt |-> 0, idx |-> 0, phases |-> <<>>,
            status |-> "none", failedAt |-> "", compFailed |-> FALSE,
            rolledBack |-> FALSE, warned |-> FALSE, deleted |-> "",
            surfaced |-> "", comps |-> 0, changed |-> FALSE]

InitSG ==
    /\ docOf = [i \in DocIds |-> NoDoc]
    /\ rows = {}
    /\ vecs = [i \in DocIds |-> 0]
    /\ nextId = 1
    /\ req = [r \in Reqs |-> ReqIdle]
    /\ ops = 0
    /\ marks = 0
    /\ embeds = 0

\* SELECT ... WHERE chat_bot_id = $1 AND content_name = $2
RowsOf(b, n) == {i \in rows : docOf[i].bot = b /\ docOf[i].name = n}

\* get_existing_content_names line 857-866: the http <-> https twin of a URL name
IsUrl(n) == n \in {"http://u", "https://u"}
Alternative(n) == IF n = "http://u" THEN "https://u" ELSE "http://u"

\* (mutant) the exact-name lookup is lost: only the http/https twin is found
ExistingTwinOnly(b, N) ==
    {Alternative(n) : n \in {m \in N : IsUrl(m) /\ RowsOf(b, Alternative(m)) # {}}}

\* get_existing_content_names: the requested names that exist, and for a
\* missing URL name its stored http/https twin
Existing(b, N) ==
    {n \in N : RowsOf(b, n) # {}}
        \cup {Alternative(n) : n \in {m \in N : /\ RowsOf(b, m) = {}
                                                /\ IsUrl(m)
                                                /\ RowsOf(b, Alternative(m)) # {}}}

\* UNIQUE(chat_bot_id, content_name), postgres_client.py line 174
UniqueViolated(b, n) == RowsOf(b, n) # {}

\* (mutant) the delete matches no row
RowsAfterDeleteNone(b, i) == rows

\* DELETE FROM documents WHERE chat_bot_id = $1 AND doc_id = $2
RowsAfterDelete(b, i) == IF docOf[i].bot = b THEN rows \ {i} ELSE rows

\* a handler returns or raises: the response is all that is kept of the request
Done(q, st, why) ==
    [q EXCEPT !.pc = "done", !.status = st, !.failedAt = why,
              !.bot = "", !.names = <<>>, !.ids = <<>>, !.existing = {},
              !.requested = 0, !.attempt = 0, !.idx = 0]

Finish(r, st, why) == Done(req[r], st, why)

Starting(r) == req[r].pc \in {"idle", "done"} /\ ops < MaxOps

\* insert_document line 125-147: the duplicate pre-check answers; a hit is a
\* skipped response, otherwise the relational transaction is awaited.
StartInsert(r, b, n) ==
    LET q == [ReqIdle EXCEPT !.op = "insert", !.bot = b, !.names = <<n>>] IN
    /\ Starting(r)
    /\ ops' = ops + 1
    /\ req' = [req EXCEPT ![r] =
                 IF Existing(b, {n}) # {}
                 THEN Done(q, "skipped", "")
                 ELSE [q EXCEPT !.pc = "pgInsert"]]
    /\ UNCHANGED <<docOf, rows, vecs, nextId, marks, embeds>>
    /\ UNCHANGED nonSG

\* insert_document line 157-185 with insert_document_with_chunks_transaction:
\* the transaction commits and returns the new doc_id, or the INSERT raises
\* the unique violation, which nothing on the way catches before the
\* `except Exception` of line 270 (doc_id is None: no rollback, status 500).
PgInsert(r) ==
    LET b == req[r].bot
        n == req[r].names[1]
    IN
    /\ req[r].op = "insert" /\ req[r].pc = "pgInsert"
    /\ IF UniqueViolated(b, n)
       THEN /\ req' = [req EXCEPT ![r] = Finish(r, "error", "unique")]
            /\ UNCHANGED <<docOf, rows, nextId>>
       ELSE /\ docOf' = [docOf EXCEPT ![nextId] = [bot |-> b, name |-> n]]
            /\ rows' = rows \cup {nextId}
            /\ nextId' = nextId + 1
            /\ req' = [req EXCEPT ![r].pc = "embed", ![r].ids = <<nextId>>]
    /\ UNCHANGED <<vecs, ops, marks, embeds>>
    /\ UNCHANGED nonSG

\* (mutant) the vectors are written under the doc_id the sequence gives next
VecsAfterInsertAhead(ids, k) ==
    [i \in DocIds |-> IF k > 0 /\ i = nextId THEN vecs[i] + 1 ELSE vecs[i]]

\* insert_vectors / one pass of batch_insert_vectors over the first k documents
\* of ids: one collection.insert per document writes all its chunk vectors
VecsAfterInsert(ids, k) ==
    [i \in DocIds |-> IF \E j \in 1..k : ids[j] = i THEN vecs[i] + 1 ELSE vecs[i]]

\* one attempt of insert_vectors_with_retry, line 234-253 of milvus_client.py,
\* inside insert_document line 214-259: a successful insert is followed by
\* mark_for_flush and the success response without another await; a failed
\* attempt sleeps and retries, the last one (attempt = max_retries) raises and
\* the compensating delete is awaited (line 239).
VecAttempt(r, ok) ==
    IF ok
    THEN /\ vecs' = VecsAfterInsert(req[r].ids, 1)
         /\ marks' = marks + 1
         /\ req' = [req EXCEPT ![r] = Finish(r, "success", "")]
    ELSE /\ UNCHANGED <<vecs, marks>>
         /\ req' = [req EXCEPT ![r] =
                      IF req[r].attempt = MaxRetries
                      THEN [@ EXCEPT !.pc = "comp1", !.failedAt = "vec"]
                      ELSE [@ EXCEPT !.pc = "vecRetry", !.attempt = @ + 1]]

\* insert_document line 193-209: batch_embed_with_retry answers.  emb = FALSE:
\* every attempt failed, the compensating delete is awaited (line 205).
\* Otherwise the first vector insert attempt runs at once (no await between).
Embed(r, emb, ok) ==
    /\ req[r].op = "insert" /\ req[r].pc = "embed"
    /\ embeds' = embeds + 1
    /\ IF emb
       THEN VecAttempt(r, ok)
       ELSE /\ ~ok
            /\ req' = [req EXCEPT ![r].pc = "comp1", ![r].failedAt = "embed"]
            /\ UNCHANGED <<vecs, marks>>
    /\ UNCHANGED <<docOf, rows, nextId, ops>>
    /\ UNCHANGED nonSG

\* insert_vectors_with_retry: the backoff sleep is over, the next attempt runs
VecRetry(r, ok) ==
    /\ req[r].op = "insert" /\ req[r].pc = "vecRetry"
    /\ VecAttempt(r, ok)
    /\ UNCHANGED <<docOf, rows, nextId, ops, embeds>>
    /\ UNCHANGED nonSG

\* insert_document line 205 / 239: the compensating delete_document answers,
\* then HTTPException(500).  A delete that raises leaves the handler's except
\* block as a plain exception: line 270-277 awaits delete_document again.
Compensate(r, ok) ==
    /\ req[r].op = "insert" /\ req[r].pc = "comp1"
    /\ IF ok
       THEN /\ rows' = RowsAfterDelete(req[r].bot, req[r].ids[1])
            /\ req' = [req EXCEPT ![r] =
                         [Finish(r, "error", req[r].failedAt) EXCEPT
                            !.rolledBack = TRUE, !.surfaced = req[r].failedAt,
                            !.comps = req[r].comps + 1]]
       ELSE /\ UNCHANGED rows
            /\ req' = [req EXCEPT ![r].pc = "comp2", ![r].compFailed = TRUE,
                                  ![r].comps = @ + 1]
    /\ UNCHANGED <<docOf, vecs, nextId, ops, marks, embeds>>
    /\ UNCHANGED nonSG

\* insert_document line 270-284: `e`, the exception the handler of line 270
\* caught and puts in the detail of its HTTPException: the error of the
\* compensating delete that raised inside the except block of line 198 /
\* 232, or else the exception raised after the vector insert
Surfaced270(q) == IF q.compFailed THEN "comp" ELSE q.failedAt

\* insert_document line 270-284: the second delete_document answers; its
\* failure is logged, and HTTPException(500) is raised either way
CompensateAgain(r, ok) ==
    /\ req[r].op = "insert" /\ req[r].pc = "comp2"
    /\ rows' = IF ok THEN RowsAfterDelete(req[r].bot, req[r].ids[1]) ELSE rows
    /\ req' = [req EXCEPT ![r] =
                 [Finish(r, "error", req[r].failedAt) EXCEPT
                    !.rolledBack = ok,
                    !.surfaced = Surfaced270(req[r]),
                    !.comps = req[r].comps + 1]]
    /\ UNCHANGED <<docOf, vecs, nextId, ops, marks, embeds>>
    /\ UNCHANGED nonSG

\* a variant in which an exception after the vector insert is answered
\* without any compensation
AfterPostRaiseNoComp(q) == Done(q, "error", "post")

\* the handler with an exception raised after the vector insert succeeded:
\* line 270-277 awaits delete_document
AfterPostRaise(q) == [q EXCEPT !.pc = "comp2", !.failedAt = "post", !.changed = TRUE]

\* insert_document line 214-246: the embedding answered and the vector insert
\* succeeded (first attempt or a retry), then a statement outside the two
\* inner try blocks raises, for example mark_for_flush (line 246)
VecThenRaise(r) ==
    /\ req[r].op = "insert" /\ req[r].pc \in {"embed", "vecRetry"}
    /\ vecs' = VecsAfterInsert(req[r].ids, 1)
    /\ embeds' = IF req[r].pc = "embed" THEN embeds + 1 ELSE embeds
    /\ req' = [req EXCEPT ![r] = AfterPostRaise(req[r])]
    /\ UNCHANGED <<docOf, rows, nextId, ops, marks>>
    /\ UNCHANGED nonSG

\* the request task is cancelled (client gone, timeout of a caller) while
\* insert_document awaits inside batch_embed_with_retry or
\* insert_vectors_with_retry: asyncio.CancelledError is raised at the await;
\* it is a BaseException, so neither `except Exception` of line 198 / 232 nor
\* the handlers of line 267-284 catch it
Cancel(r) ==
    /\ req[r].op = "insert" /\ req[r].pc \in {"embed", "vecRetry"}
    /\ req' = [req EXCEPT ![r] = Done(req[r], "cancelled", "cancel")]
    /\ UNCHANGED <<docOf, rows, vecs, nextId, ops, marks, embeds>>
    /\ UNCHANGED nonSG

\* Insert requests alone, with exceptions after the vector insert and with
\* cancellation
InsertNext ==
    \/ \E r \in Reqs, b \in Bots, n \in Names : StartInsert(r, b, n)
    \/ \E r \in Reqs : PgInsert(r)
    \/ \E r \in Reqs, emb \in BOOLEAN, ok \in BOOLEAN : Embed(r, emb, ok)
    \/ \E r \in Reqs, ok \in BOOLEAN : VecRetry(r, ok)
    \/ \E r \in Reqs, ok \in BOOLEAN : Compensate(r, ok)
    \/ \E r \in Reqs, ok \in BOOLEAN : CompensateAgain(r, ok)
    \/ \E r \in Reqs : VecThenRaise(r)
    \/ \E r \in Reqs : Cancel(r)

\* ---- batch_insert_documents_with_embeddings (whole-batch strategy)
Docs == [bot : Bots, name : Names]

\* one pass of batch_insert_vectors (milvus_client.py line 278-318) that writes
\* the first k documents; k = 2 is the pass that succeeds.  Success is followed
\* by mark_for_flush and the response; a failed pass sleeps and is retried
\* (batch_insert_vectors_with_retry line 347-361), the last one starts the
\* rollback loop of data.py line 680-684.
BatchVecAttempt(r, q, k) ==
    /\ vecs' = VecsAfterInsert(q.ids, k)
    /\ IF k = Len(q.ids)
       THEN /\ marks' = marks + 1
            /\ req' = [req EXCEPT ![r] =
                         Done(q, "success", "")]
       ELSE /\ UNCHANGED marks
            /\ req' = [req EXCEPT ![r] =
                         IF q.attempt = MaxRetries
                         THEN [q EXCEPT !.pc = "bcomp", !.failedAt = "vec", !.idx = 1,
                                        !.changed = @ \/ k > 0]
                         ELSE [q EXCEPT !.pc = "bvecRetry", !.attempt = @ + 1,
                                        !.changed = @ \/ k > 0]]

\* data.py line 589-672: no duplicate pre-check; the batch transaction
\* (postgres_client.py line 404-431) commits every document or raises, e.g. on
\* UNIQUE(chat_bot_id, content_name) (doc_ids stays empty: nothing to roll
\* back, status 500); after the commit the first vector pass runs at once.
StartBatch(r, d1, d2, k) ==
    LET q == [ReqIdle EXCEPT !.op = "batch", !.bot = d1.bot,
                             !.names = <<d1.name, d2.name>>]
    IN
    /\ Starting(r)
    /\ ops' = ops + 1
    /\ IF d1 = d2 \/ UniqueViolated(d1.bot, d1.name) \/ UniqueViolated(d2.bot, d2.name)
       THEN /\ k = 0
            /\ req' = [req EXCEPT ![r] =
                         Done(q, "error", "unique")]
            /\ UNCHANGED <<docOf, rows, vecs, nextId, marks>>
       ELSE /\ docOf' = [docOf EXCEPT ![nextId] = d1, ![nextId + 1] = d2]
            /\ rows' = rows \cup {nextId, nextId + 1}
            /\ nextId' = nextId + 2
            /\ BatchVecAttempt(r, [q EXCEPT !.ids = <<nextId, nextId + 1>>], k)
    /\ UNCHANGED embeds
    /\ UNCHANGED nonSG

\* batch_insert_vectors_with_retry: the backoff sleep is over, the next pass runs
BatchVecRetry(r, k) ==
    /\ req[r].op = "batch" /\ req[r].pc = "bvecRetry"
    /\ BatchVecAttempt(r, req[r], k)
    /\ UNCHANGED <<docOf, rows, nextId, ops, embeds>>
    /\ UNCHANGED nonSG

\* data.py line 680-688: one delete_document of the rollback loop answers; it
\* is called with documents[0].chat_bot_id for every doc_id, and a failure is
\* passed over (bare except); after the last one HTTPException(500)
BatchRollback(r, ok) ==
    LET i == req[r].idx IN
    /\ req[r].op = "batch" /\ req[r].pc = "bcomp"
    /\ rows' = IF ok THEN RowsAfterDelete(req[r].bot, req[r].ids[i]) ELSE rows
    /\ req' = [req EXCEPT ![r] =
                 IF i = Len(req[r].ids)
                 THEN [Finish(r, "error", "vec") EXCEPT
                          !.compFailed = @ \/ ~ok,
                          !.rolledBack = ~(req[r].compFailed \/ ~ok)]
                 ELSE [@ EXCEPT !.idx = i + 1, !.compFailed = @ \/ ~ok]]
    /\ UNCHANGED <<docOf, vecs, nextId, ops, marks, embeds>>
    /\ UNCHANGED nonSG

\* ---- delete_document and delete_bot_data
\* collection.delete(expr = chat_bot_id == b and content_name in E),
\* milvus_client.py line 551-575: every vector carrying these tags goes
VecsAfterDelete(b, E) ==
    [i \in DocIds |-> IF docOf[i].bot = b /\ docOf[i].name \in E THEN 0 ELSE vecs[i]]

\* DELETE FROM documents WHERE chat_bot_id = $1 AND content_name IN (...)
RowsAfterDeleteNames(b, E) ==
    rows \ {i \in rows : docOf[i].bot = b /\ docOf[i].name \in E}

\* (mutant) the relational failure is swallowed: a success response
PgDeleteSwallowed(r) == Finish(r, "success", "")

\* data.py line 917-931 and 1042-1055: the relational phase raised after the
\* vector phase was done; the data-consistency warning is logged, nothing is
\* re-inserted, and the handler raises (the caller gets status 500)
PgDeleteFailed(r) == [Finish(r, "error", "pgdel") EXCEPT !.warned = TRUE]

\* the status of data.py line 941-952: successful names against requested names
DeleteStatus(requested, E) ==
    IF Cardinality(E) = requested THEN "success"
    ELSE IF Cardinality(E) > 0 THEN "partial_success" ELSE "failed"

\* delete_document line 843-901: the existence filter answers; nothing found is
\* a success response with nothing deleted; otherwise delete_by_content_names
\* (all synchronous) runs at once: done, or raises and the handler raises.
StartDelete(r, b, N, ok) ==
    LET E == Existing(b, N)
        q == [ReqIdle EXCEPT !.op = "delete", !.bot = b, !.existing = E,
                             !.requested = Cardinality(N)]
    IN
    /\ Starting(r)
    /\ N # {}
    /\ ops' = ops + 1
    /\ IF E = {}
       THEN /\ ok
            /\ req' = [req EXCEPT ![r] =
                         [Done(q, "success", "") EXCEPT !.deleted = "none"]]
            /\ UNCHANGED vecs
       ELSE IF ok
       THEN /\ vecs' = VecsAfterDelete(b, E)
            /\ req' = [req EXCEPT ![r] = [q EXCEPT !.pc = "delPg", !.phases = <<"vec">>,
                                                   !.changed = VecsAfterDelete(b, E) # vecs]]
       ELSE /\ UNCHANGED vecs
            /\ req' = [req EXCEPT ![r] =
                         Done(q, "error", "vecdel")]
    /\ UNCHANGED <<docOf, rows, nextId, marks, embeds>>
    /\ UNCHANGED nonSG

\* delete_document line 906-978: delete_documents_by_content_names answers
DeletePg(r, ok) ==
    /\ req[r].op = "delete" /\ req[r].pc = "delPg"
    /\ IF ok
       THEN /\ rows' = RowsAfterDeleteNames(req[r].bot, req[r].existing)
            /\ marks' = marks + 1
            /\ req' = [req EXCEPT ![r] =
                         [Finish(r, "success", "") EXCEPT
                            !.status = DeleteStatus(req[r].requested, req[r].existing),
                            !.deleted = IF Cardinality(req[r].existing) < req[r].requested
                                        THEN "some" ELSE "all",
                            !.phases = <<"vec", "pg">>]]
       ELSE /\ UNCHANGED <<rows, marks>>
            /\ req' = [req EXCEPT ![r] = PgDeleteFailed(r)]
    /\ UNCHANGED <<docOf, vecs, nextId, ops, embeds>>
    /\ UNCHANGED nonSG

\* delete_bot_data line 1016-1032: delete_partition (all synchronous) drops the
\* bot's partition with every vector in it, or raises and the handler raises
StartDeleteBot(r, b, ok) ==
    LET q == [ReqIdle EXCEPT !.op = "delbot", !.bot = b] IN
    /\ Starting(r)
    /\ ops' = ops + 1
    /\ IF ok
       THEN /\ vecs' = VecsAfterDelete(b, Names)
            /\ req' = [req EXCEPT ![r] = [q EXCEPT !.pc = "delPg", !.phases = <<"vec">>,
                                                   !.changed = VecsAfterDelete(b, Names) # vecs]]
       ELSE /\ UNCHANGED vecs
            /\ req' = [req EXCEPT ![r] =
                         Done(q, "error", "vecdel")]
    /\ UNCHANGED <<docOf, rows, nextId, marks, embeds>>
    /\ UNCHANGED nonSG

\* delete_bot_data line 1037-1083: postgres_client.delete_bot_data answers
DeleteBotPg(r, ok) ==
    /\ req[r].op = "delbot" /\ req[r].pc = "delPg"
    /\ IF ok
       THEN /\ rows' = RowsAfterDeleteNames(req[r].bot, Names)
            /\ marks' = marks + 1
            /\ req' = [req EXCEPT ![r] =
                         [Finish(r, "success", "") EXCEPT !.phases = <<"vec", "pg">>]]
       ELSE /\ UNCHANGED <<rows, marks>>
            /\ req' = [req EXCEPT ![r] = PgDeleteFailed(r)]
    /\ UNCHANGED <<docOf, vecs, nextId, ops, embeds>>
    /\ UNCHANGED nonSG

SGNext ==
    \/ \E r \in Reqs, b \in Bots, n \in Names : StartInsert(r, b, n)
    \/ \E r \in Reqs : PgInsert(r)
    \/ \E r \in Reqs, emb \in BOOLEAN, ok \in BOOLEAN : Embed(r, emb, ok)
    \/ \E r \in Reqs, ok \in BOOLEAN : VecRetry(r, ok)
    \/ \E r \in Reqs, ok \in BOOLEAN : Compensate(r, ok)
    \/ \E r \in Reqs, ok \in BOOLEAN : CompensateAgain(r, ok)
    \/ \E r \in Reqs, d1 \in Docs, d2 \in Docs, k \in 0..2 : StartBatch(r, d1, d2, k)
    \/ \E r \in Reqs, k \in 0..2 : BatchVecRetry(r, k)
    \/ \E r \in Reqs, ok \in BOOLEAN : BatchRollback(r, ok)
    \/ \E r \in Reqs, b \in Bots, N \in SUBSET Names, ok \in BOOLEAN :
          StartDelete(r, b, N, ok)
    \/ \E r \in Reqs, ok \in BOOLEAN : DeletePg(r, ok)
    \/ \E r \in Reqs, b \in Bots, ok \in BOOLEAN : StartDeleteBot(r, b, ok)
    \/ \E r \in Reqs, ok \in BOOLEAN : DeleteBotPg(r, ok)

\* ----------------------------- _check_memory_and_cleanup, one pass alone
\* The same pass over a listing of up to MaxParts partitions, without the
\* callers: what it unloads depends only on the listing it was handed.
MemTimes == {NoTime, 0, 1}

InitMem ==
    /\ mN = 0
    /\ mAcc = <<>>
    /\ mHigh = FALSE
    /\ mTodo = <<>>
    /\ mTried = <<>>
    /\ mEvicted = {}
    /\ mLowAt = 0
    /\ mPc = "sleep"

\* the listing in the order get_all_loaded_partitions returns it
MemListing(n) == [i \in 1..n |-> i]

\* line 485-508: psutil is read (high: above MEMORY_THRESHOLD_PERCENT), the
\* listing of n partitions with access times acc answers, sorted() and the
\* slice give the partitions to unload
MemPassStart ==
    /\ mPc = "sleep"
    /\ \E high \in BOOLEAN, n \in 0..MaxParts : \E acc \in [1..n -> MemTimes] :
          /\ mHigh' = high
          /\ mN' = n
          /\ mAcc' = acc
          /\ IF ~high \/ n = 0 \/ SortRaises(MemListing(n), acc)
             THEN mTodo' = <<>> /\ mPc' = "done"
             ELSE mTodo' = MemVictims(MemListing(n), acc) /\ mPc' = "unload"
    /\ UNCHANGED <<mTried, mEvicted, mLowAt>>
    /\ UNCHANGED nonMem

\* line 508-519: unload_partition of the next partition answers (ok: the
\* release did not raise), psutil is read again (low: below the threshold)
MemPassUnload(ok, low) ==
    /\ mPc = "unload"
    /\ mTried' = Append(mTried, Head(mTodo))
    /\ mEvicted' = IF ok THEN mEvicted \cup {Head(mTodo)} ELSE mEvicted
    /\ mLowAt' = IF low THEN Len(mTried) + 1 ELSE 0
    /\ mTodo' = Tail(mTodo)
    /\ mPc' = IF low \/ Tail(mTodo) = <<>> THEN "done" ELSE "unload"
    /\ UNCHANGED <<mN, mAcc, mHigh>>
    /\ UNCHANGED nonMem

MemNext ==
    \/ MemPassStart
    \/ \E ok \in BOOLEAN, low \in BOOLEAN : MemPassUnload(ok, low)

\* ------------------------------------ lifespan: reload_partitions_from_redis
\* What the lifespan runs at process start (main.py line 46), over one
\* collection.  sync_partition_states has no caller.
SuParts == {"p1", "p2", "p3"}
SuOrder == <<"p1", "p2", "p3">>

InitSu ==
    /\ suPc = "off"
    /\ suTracked = {}
    /\ suLoaded = {}
    /\ suTodo = <<>>
    /\ suTracked0 = {}
    /\ suLoaded0 = {}
    /\ suTouched = {}

SuInOrder(p) == p \in suTracked'

\* line 151-160: the process starts with the two stores in any state each
\* (they are independently durable); get_all_loaded_partitions answers with
\* the tracked partitions, and none means nothing to do
SuList ==
    /\ suPc = "off"
    /\ \E T \in SUBSET SuParts, L \in SUBSET SuParts :
          /\ suTracked' = T /\ suTracked0' = T
          /\ suLoaded' = L /\ suLoaded0' = L
          /\ suPc' = IF T = {} THEN "done" ELSE "reload"
    /\ suTodo' = SelectSeq(SuOrder, SuInOrder)
    /\ UNCHANGED suTouched
    /\ UNCHANGED nonSu

\* line 198-233: the vector-store calls of the collection, none of them
\* awaits.  collLoaded is what utility.load_state(collection) answers (a
\* query that raises counts as not loaded); F are the partitions whose
\* load() raises.  Loaded collection: each tracked partition that is not
\* loaded is loaded, one by one, a failure is logged and skipped.  Not
\* loaded: collection.load(partition_names) loads them all, and its failure
\* leaves the collection block (line 239), skipping the touches.
SuReload(collLoaded, F) ==
    /\ suPc = "reload"
    /\ collLoaded => suLoaded # {}
    /\ F \subseteq suTracked
    /\ IF collLoaded
       THEN /\ suLoaded' = suLoaded \cup (suTracked \ F)
            /\ suPc' = "touch"
            /\ UNCHANGED suTodo
       ELSE IF F = {}
       THEN /\ suLoaded' = suLoaded \cup suTracked
            /\ suPc' = "touch"
            /\ UNCHANGED suTodo
       ELSE /\ suPc' = "done"
            /\ suTodo' = <<>>
            /\ UNCHANGED suLoaded
    /\ UNCHANGED <<suTracked, suTracked0, suLoaded0, suTouched>>
    /\ UNCHANGED nonSu

\* line 236-237: update_access_time of the next tracked partition answers
SuTouch ==
    /\ suPc = "touch"
    /\ suTouched' = suTouched \cup {Head(suTodo)}
    /\ suTodo' = Tail(suTodo)
    /\ suPc' = IF Tail(suTodo) = <<>> THEN "done" ELSE "touch"
    /\ UNCHANGED <<suTracked, suLoaded, suTracked0, suLoaded0>>
    /\ UNCHANGED nonSu

SuNext ==
    \/ SuList
    \/ \E collLoaded \in BOOLEAN, F \in SUBSET SuParts : SuReload(collLoaded, F)
    \/ SuTouch

\* ------------------------------- batch_insert_documents, one request alone
\* One request of up to MaxDocs documents of one bot.  Content names are
\* numbers; a request is drawn up to renaming (the name of document i is at
\* most i), with any set of its names already in the relational store.
NoResp == [status |-> "", total_documents |-> 0, success_count |-> 0,
           failure_count |-> 0]

InitB ==
    /\ bPc = "idle"
    /\ bNames = <<>>
    /\ bRowNames = {}
    /\ bRowOf = {}
    /\ bVecOf = {}
    /\ bUnique = <<>>
    /\ bIdx = 0
    /\ bSkipped = <<>>
    /\ bOk = <<>>
    /\ bFailed = <<>>
    /\ bResp = NoResp
    /\ bMarked = FALSE
    /\ bWhy = <<>>
    /\ bCompFailed = {}
    /\ bFaults = 0

\* the indices 1..n whose name is (dup) or is not (~dup) in the set E, in order
RECURSIVE BSplit(_, _, _, _)
BSplit(names, E, dup, i) ==
    IF i > Len(names) THEN <<>>
    ELSE IF (names[i] \in E) = dup
         THEN <<i>> \o BSplit(names, E, dup, i + 1)
         ELSE BSplit(names, E, dup, i + 1)

\* line 532-563: the response of a request with these three lists
ResponseStatus(ok, failed) ==
    IF failed = 0 THEN "success" ELSE IF ok = 0 THEN "skipped" ELSE "partial_success"

BResponse(total, ok, skipped, failed) ==
    [status |-> ResponseStatus(Len(ok), Len(skipped) + Len(failed)),
     total_documents |-> total,
     success_count |-> Len(ok),
     failure_count |-> Len(skipped) + Len(failed)]

\* line 310-372: the pre-check answers; documents whose name exists go to
\* failed_docs, the others to unique_docs; with no unique document the
\* request returns "skipped" at once
BStart ==
    /\ bPc = "idle"
    /\ \E n \in 1..MaxDocs : \E names \in [1..n -> 1..n], E \in SUBSET (1..n) :
          /\ \A i \in 1..n : names[i] <= i
          /\ E \subseteq {names[i] : i \in 1..n}
          /\ bNames' = names
          /\ bRowNames' = E
          /\ bWhy' = [i \in 1..n |-> IF names[i] \in E THEN "dup" ELSE ""]
          /\ bSkipped' = BSplit(names, E, TRUE, 1)
          /\ bUnique' = BSplit(names, E, FALSE, 1)
          /\ IF BSplit(names, E, FALSE, 1) = <<>>
             THEN /\ bPc' = "done"
                  /\ bResp' = [BResponse(n, <<>>, BSplit(names, E, TRUE, 1), <<>>)
                                   EXCEPT !.status = "skipped"]
                  /\ bIdx' = 0
             ELSE /\ bPc' = "pg"
                  /\ bResp' = NoResp
                  /\ bIdx' = 1
    /\ UNCHANGED <<bRowOf, bVecOf, bOk, bFailed, bMarked, bCompFailed, bFaults>>
    /\ UNCHANGED nonB

BCur == bUnique[bIdx]

\* the loop moves to the next unique document, or leaves for line 487
BAdvance ==
    /\ bIdx' = bIdx + 1
    /\ bPc' = IF bIdx = Len(bUnique) THEN "mark" ELSE "pg"

\* line 447-476 with `why` the step that raised: the document joins
\* failed_processing_docs
BFail(why) ==
    /\ bFailed' = Append(bFailed, BCur)
    /\ bWhy' = [bWhy EXCEPT ![BCur] = why]
    /\ BAdvance

\* line 392-400: the relational transaction of the current document
\* answers.  A name that has a row violates UNIQUE(chat_bot_id,
\* content_name); err is any other failure.  Either way doc_id stays None
\* and nothing is compensated.
BPg(err) ==
    /\ bPc = "pg"
    /\ err => bFaults < MaxFaults
    /\ IF bNames[BCur] \in bRowNames
       THEN /\ BFail("unique")
            /\ UNCHANGED <<bRowNames, bRowOf, bFaults>>
       ELSE IF err
       THEN /\ BFail("pg")
            /\ bFaults' = bFaults + 1
            /\ UNCHANGED <<bRowNames, bRowOf>>
       ELSE /\ bRowNames' = bRowNames \cup {bNames[BCur]}
            /\ bRowOf' = bRowOf \cup {BCur}
            /\ bPc' = "embed"
            /\ UNCHANGED <<bIdx, bFailed, bWhy, bFaults>>
    /\ UNCHANGED <<bNames, bVecOf, bUnique, bSkipped, bOk, bResp, bMarked, bCompFailed>>
    /\ UNCHANGED nonB

\* line 413-417: batch_embed_with_retry answers (ok) or raises after its
\* retries
BEmbed(ok) ==
    /\ bPc = "embed"
    /\ ~ok => bFaults < MaxFaults
    /\ bPc' = IF ok THEN "vec" ELSE "comp"
    /\ bWhy' = IF ok THEN bWhy ELSE [bWhy EXCEPT ![BCur] = "embed"]
    /\ bFaults' = IF ok THEN bFaults ELSE bFaults + 1
    /\ UNCHANGED <<bNames, bRowNames, bRowOf, bVecOf, bUnique, bIdx, bSkipped, bOk,
                   bFailed, bResp, bMarked, bCompFailed>>
    /\ UNCHANGED nonB

\* line 431-444: insert_vectors_with_retry answers (ok) or raises after its
\* retries, with or without vectors of the document left behind (partial)
BVec(ok, partial) ==
    /\ bPc = "vec"
    /\ ~ok => bFaults < MaxFaults
    /\ ok => ~partial
    /\ IF ok
       THEN /\ bVecOf' = bVecOf \cup {BCur}
            /\ bOk' = Append(bOk, BCur)
            /\ BAdvance
            /\ UNCHANGED <<bWhy, bFaults>>
       ELSE /\ bVecOf' = IF partial THEN bVecOf \cup {BCur} ELSE bVecOf
            /\ bWhy' = [bWhy EXCEPT ![BCur] = "vec"]
            /\ bFaults' = bFaults + 1
            /\ bPc' = "comp"
            /\ UNCHANGED <<bOk, bIdx>>
    /\ UNCHANGED <<bNames, bRowNames, bRowOf, bUnique, bSkipped, bFailed, bResp,
                   bMarked, bCompFailed>>
    /\ UNCHANGED nonB

\* the relational store after a compensating delete of document i that
\* left its row in place (a variant that compensates nothing)
BRowsKept(R, i) == R

\* the relational store after the compensating delete of document i
BRowsAfterComp(R, i) == R \ {i}

\* line 462-475: the compensating delete answers (ok) or raises and is
\* logged; the document joins failed_processing_docs
BComp(ok) ==
    /\ bPc = "comp"
    /\ ~ok => bFaults < MaxFaults
    /\ bRowOf' = IF ok THEN BRowsAfterComp(bRowOf, BCur) ELSE bRowOf
    /\ bRowNames' = IF ok /\ BCur \notin BRowsAfterComp(bRowOf, BCur)
                     THEN bRowNames \ {bNames[BCur]} ELSE bRowNames
    /\ bCompFailed' = IF ok THEN bCompFailed ELSE bCompFailed \cup {BCur}
    /\ bFaults' = IF ok THEN bFaults ELSE bFaults + 1
    /\ bFailed' = Append(bFailed, BCur)
    /\ BAdvance
    /\ UNCHANGED <<bNames, bVecOf, bUnique, bSkipped, bOk, bResp, bMarked, bWhy>>
    /\ UNCHANGED nonB

\* line 488-563: mark_for_flush, then the response is built and returned
BMark ==
    /\ bPc = "mark"
    /\ bMarked' = TRUE
    /\ bResp' = BResponse(Len(bNames), bOk, bSkipped, bFailed)
    /\ bPc' = "done"
    /\ UNCHANGED <<bNames, bRowNames, bRowOf, bVecOf, bUnique, bIdx, bSkipped, bOk,
                   bFailed, bWhy, bCompFailed, bFaults>>
    /\ UNCHANGED nonB

BNext ==
    \/ BStart
    \/ \E err \in BOOLEAN : BPg(err)
    \/ \E ok \in BOOLEAN : BEmbed(ok)
    \/ \E ok \in BOOLEAN, partial \in BOOLEAN : BVec(ok, partial)
    \/ \E ok \in BOOLEAN : BComp(ok)
    \/ BMark

\* ------------------------------------ insert_document: the metadata split
\* A metadata map is a function from some of MetaKeys to MetaVals; None is
\* JSON null.
MetaKeys == {"content_type", "author", "tags"}
None == "None"
MetaVals == {"pdf", "x", None}
NoMeta == [k \in {} |-> None]

InitFm ==
    /\ fmMeta = NoMeta
    /\ fmAllow = {}
    /\ fmVec = NoMeta
    /\ fmRow = {}

\* a variant of the filter that mirrors every field
FilterKeepsAll(m, A) == m

\* filter_milvus_metadata: the fields on the allow-list whose value is not
\* None
FilterMilvusMetadata(m, A) ==
    [k \in {j \in DOMAIN m : j \in A /\ m[j] # None} |-> m[k]]

\* json.dumps of a map into the jsonb column: its members
JsonDumps(m) == {<<k, m[k]>> : k \in DOMAIN m}

\* the map a jsonb value reads back as
JsonLoads(J) == [k \in {p[1] : p \in J} |-> (CHOOSE p \in J : p[1] = k)[2]]

\* data.py line 149-168 and 214-223: an Insert with metadata m under the
\* allow-list A writes the row with all of m and the vectors with the
\* filtered map
MetaInsert ==
    \E A \in SUBSET MetaKeys, D \in SUBSET MetaKeys : \E m \in [D -> MetaVals] :
        /\ fmMeta' = m
        /\ fmAllow' = A
        /\ fmVec' = FilterMilvusMetadata(m, A)
        /\ fmRow' = JsonDumps(m)
        /\ UNCHANGED nonFm

\* ------------------------------------------------- the retry-wrapped calls
\* batch_embed_with_retry, insert_vectors_with_retry and
\* batch_insert_vectors_with_retry are the same loop around their action:
\*   for attempt in range(max_retries + 1):
\*       try: return await action()
\*       except Exception: raise if attempt == max_retries, else sleep
Wrappers == {"batch_embed_with_retry", "insert_vectors_with_retry",
             "batch_insert_vectors_with_retry"}
Errors == {"e1", "e2"}      \* exceptions the underlying action may raise
Values == {"v1", "v2"}      \* results the underlying action may return

InitRt ==
    /\ rtPc = "idle"
    /\ rtWrapper = ""
    /\ rtN = 0
    /\ rtAttempt = 0
    /\ rtErrs = <<>>
    /\ rtCalls = 0
    /\ rtOut = ""
    /\ rtBackoff = 2
    /\ rtWaits = <<>>
    /\ rtWaited = 0

\* (mutant) the wait grows by one backoff per attempt
WaitTimeLinear(backoff, attempt) == backoff * (attempt + 1)

\* `wait_time = backoff * (2 ** attempt)`
WaitTime(backoff, attempt) == backoff * (2 ^ attempt)

\* a variant of the test that never matches inside the loop
LastAttemptLate(attempt, n) == attempt = n + 1

\* `if attempt == max_retries`
LastAttempt(attempt, n) == attempt = n

\* the wrapper is called with max_retries = n and enters its loop
RtCall ==
    /\ rtPc = "idle"
    /\ \E w \in Wrappers, n \in 0..MaxRetries, b \in Backoffs :
          /\ rtWrapper' = w
          /\ rtN' = n
          /\ rtBackoff' = b
    /\ rtPc' = "try"
    /\ UNCHANGED <<rtAttempt, rtErrs, rtCalls, rtOut, rtWaits, rtWaited>>
    /\ UNCHANGED nonRt

\* the awaited action of this attempt returns v
RtReturn(v) ==
    /\ rtPc = "try"
    /\ rtCalls' = rtCalls + 1
    /\ rtOut' = v
    /\ rtPc' = "returned"
    /\ UNCHANGED <<rtWrapper, rtN, rtAttempt, rtErrs, rtBackoff, rtWaits, rtWaited>>
    /\ UNCHANGED nonRt

\* the awaited action of this attempt raises e: re-raised on the last
\* attempt, otherwise the backoff sleep starts
RtRaise(e) ==
    /\ rtPc = "try"
    /\ rtCalls' = rtCalls + 1
    /\ rtErrs' = Append(rtErrs, e)
    /\ IF LastAttempt(rtAttempt, rtN)
       THEN rtPc' = "raised" /\ rtOut' = e /\ UNCHANGED rtWaits
       ELSE /\ rtPc' = "sleep"
            /\ rtWaits' = Append(rtWaits, WaitTime(rtBackoff, rtAttempt))
            /\ UNCHANGED rtOut
    /\ UNCHANGED <<rtWrapper, rtN, rtAttempt, rtBackoff, rtWaited>>
    /\ UNCHANGED nonRt

\* asyncio.sleep(backoff * 2 ** attempt) returns: the next iteration of the
\* for loop, or the end of the range (the function ends and returns None)
RtSleep ==
    /\ rtPc = "sleep"
    /\ rtAttempt' = rtAttempt + 1
    /\ rtPc' = IF rtAttempt + 1 <= rtN THEN "try" ELSE "none"
    /\ rtWaited' = rtWaited + rtWaits[Len(rtWaits)]
    /\ UNCHANGED <<rtWrapper, rtN, rtErrs, rtCalls, rtOut, rtBackoff, rtWaits>>
    /\ UNCHANGED nonRt

RtNext ==
    \/ RtCall
    \/ \E v \in Values : RtReturn(v)
    \/ \E e \in Errors : RtRaise(e)
    \/ RtSleep

\* ------------------------------------ unload_partition called on its own
\* redis_partition_manager.py line 107-137, for any key, tracked or not,
\* beside the callers of ensure_partition_loaded.  The calls last seconds:
\* the 15 minute clock of the key expiries stands still.
EvIdle == [pc |-> "idle", key |-> "c/p1", result |-> FALSE, n |-> 0]

InitEv == ev = EvIdle

\* line 123-127: Collection(...), collection.partition(...), partition.release(),
\* all synchronous; releasing a partition that is not loaded changes nothing.
\* raises: one of them raises, caught at line 135-137: return False.
EvictRelease(k, raises) ==
    /\ ev.pc \in {"idle", "done"}
    /\ ev.n < MaxEvicts
    /\ ev' = [pc |-> IF raises THEN "done" ELSE "untrack", key |-> k,
              result |-> FALSE, n |-> ev.n + 1]
    /\ milvusLoaded' = IF raises THEN milvusLoaded ELSE milvusLoaded \ {k}
    /\ disturbed' = [disturbed EXCEPT ![k] = @ \/ ~raises]
    /\ UNCHANGED <<now, redisVars, locked, callerVars, cl, calls, loadCalls>>
    /\ UNCHANGED nonPMEv

\* line 130-133: set_partition_unloaded answers, return True; its pipeline
\* raising (raises) is caught at line 135-137: return False.
EvictUntrack(raises) ==
    /\ ev.pc = "untrack"
    /\ IF raises THEN UNCHANGED redisVars ELSE Untrack({ev.key})
    /\ ev' = [ev EXCEPT !.pc = "done", !.result = ~raises]
    /\ UNCHANGED <<now, milvusLoaded, locked, callerVars, cl, histVars>>
    /\ UNCHANGED nonPMEv

EvNext ==
    \/ \E c \in Callers, k \in Keys, f \in BOOLEAN : StartCall(c, k, f)
    \/ \E c \in Callers : Touch1(c)
    \/ \E c \in Callers : AcquireLock(c)
    \/ \E c \in Callers : Check2(c)
    \/ \E c \in Callers : Touch2(c)
    \/ \E c \in Callers : SetExists(c)
    \/ \E c \in Callers : SetPipe(c)
    \/ \E k \in Keys, raises \in BOOLEAN : EvictRelease(k, raises)
    \/ \E raises \in BOOLEAN : EvictUntrack(raises)

\* --------------------------------------- delete_document, the response lists
\* One Delete request of one bot taken alone, its request list with
\* repetitions and in any order; both deletes succeed.
DrNames == {"http://u", "https://u", "doc"}

DrLists == UNION {[1..n -> DrNames] : n \in 1..MaxNames}

NoDelResp == [status |-> "none", successful |-> {}, failed |-> {},
              total_requested |-> 0, total_success |-> 0, total_failed |-> 0]

InitDr == dr = [pc |-> "idle", names |-> <<>>, stored |-> {}, after |-> {}, resp |-> NoDelResp]

\* get_existing_content_names over the names S stored for the bot: one name
\* is looked up exactly and then as its http/https twin (line 840-876);
\* several names are matched with IN (...) and every missing URL name is
\* looked up as its twin, which is added unless already found (line 877-920).
\* content_name is unique per bot, so the list has no repetition.
ExistingNames(S, s) ==
    LET found == S \cap SeqSet(s) IN
    IF Len(s) = 1
    THEN IF s[1] \in S THEN {s[1]}
         ELSE IF IsUrl(s[1]) /\ Alternative(s[1]) \in S THEN {Alternative(s[1])}
         ELSE {}
    ELSE found \cup {Alternative(m) : m \in {x \in SeqSet(s) \ found :
                        IsUrl(x) /\ Alternative(x) \in S /\ Alternative(x) \notin found}}

\* delete_document line 847-864: nothing exists, every requested entry is
\* reported failed; line 866-879, 912, 941-978: the response after both deletes
DeleteResponse(S, s) ==
    LET E == ExistingNames(S, s)
        missing_docs == IF Cardinality(E) < Len(s) THEN SeqSet(s) \ E ELSE {}
    IN
    IF E = {}
    THEN [status |-> "success", successful |-> {}, failed |-> SeqSet(s),
          total_requested |-> Len(s), total_success |-> 0, total_failed |-> Len(s)]
    ELSE [status |-> DeleteStatus(Len(s), E), successful |-> E, failed |-> missing_docs,
          total_requested |-> Len(s), total_success |-> Cardinality(E),
          total_failed |-> Cardinality(missing_docs)]

\* a Delete request for the list s arrives while the bot has the documents S
DrRequest(s, S) ==
    /\ dr.pc = "idle"
    /\ dr' = [dr EXCEPT !.pc = "asked", !.names = s, !.stored = S, !.after = S]
    /\ UNCHANGED nonDr

\* delete_document line 843-978: the existence filter, delete_by_content_names
\* and delete_documents_by_content_names over the existing names, the response
DrRespond ==
    /\ dr.pc = "asked"
    /\ dr' = [dr EXCEPT !.pc = "done",
                        !.after = dr.stored \ ExistingNames(dr.stored, dr.names),
                        !.resp = DeleteResponse(dr.stored, dr.names)]
    /\ UNCHANGED nonDr

DrNext ==
    \/ \E s \in DrLists, S \in SUBSET DrNames : DrRequest(s, S)
    \/ DrRespond

\* ------------------------------------------- AutoFlusher.flush_immediately
InitImm == imm = [n |-> 0, result |-> "none"]

\* (mutant) the flush that raises is recorded as done
ImmediateFlushForgets(c, ok) ==
    /\ imm.n < MaxImmediate
    /\ imm' = [n |-> imm.n + 1, result |-> IF ok THEN "returned" ELSE "raised"]
    /\ dirty' = dirty \ {c}
    /\ lastFlush' = [lastFlush EXCEPT ![c] = fnow]
    /\ UNCHANGED <<fnow, lastChange, wake, dirtySince, flushFailed>>
    /\ UNCHANGED nonFLImm

\* flush_immediately line 139-157: Collection.flush() is synchronous and
\* _flush_lock is free, so the call runs without suspending.  ok: the flush
\* succeeds, last_flush_time is set and the mark discarded; otherwise the
\* exception is logged and raised again before anything is written.
ImmediateFlush(c, ok) ==
    /\ imm.n < MaxImmediate
    /\ imm' = [n |-> imm.n + 1, result |-> IF ok THEN "returned" ELSE "raised"]
    /\ dirty' = IF ok THEN dirty \ {c} ELSE dirty
    /\ lastFlush' = IF ok THEN [lastFlush EXCEPT ![c] = fnow] ELSE lastFlush
    /\ UNCHANGED <<fnow, lastChange, wake, dirtySince, flushFailed>>
    /\ UNCHANGED nonFLImm

\* the clock of the runs with immediate flushes: a few seconds are enough
FlushTickShort ==
    /\ fnow < MaxShortTime
    /\ FlushTick

ImmNext ==
    \/ \E c \in Colls : MarkDirty(c)
    \/ \E ok \in SUBSET Colls : Poll(ok)
    \/ \E c \in Colls, ok \in BOOLEAN : ImmediateFlush(c, ok)
    \/ FlushTickShort

\* ---------------------------------------------------------------------------
\* The two background tasks from creation to shutdown: AutoFlusher.start with
\* mark_for_flush, flush_immediately and stop, and auto_cleanup_loop with
\* stop_cleanup_loop.  Collection.flush() is a synchronous call: while it is
\* in progress the event loop runs nothing else, so every other coroutine's
\* step waits for lc.run = "none".  Times are left out: which collections a
\* pass finds due and which partitions a pass finds expired are inputs.

\* list(set): the orders in which the members of S can be iterated
Orders(S) ==
    {s \in [1..Cardinality(S) -> S] : \A i, j \in 1..Cardinality(S) : s[i] = s[j] => i = j}

InitLife ==
    /\ lc = [running |-> FALSE, task |-> "none", lock |-> "none", dirty |-> {},
             run |-> "none", by |-> "none", todo |-> <<>>, flushing |-> "none",
             snap |-> <<>>, tried |-> <<>>, failed |-> {}, stop |-> "none",
             unflushed |-> {}]
    /\ cu = [running |-> FALSE, task |-> "none", stopReq |-> FALSE, expired |-> {},
             tried |-> {}, failed |-> {}, lateStart |-> FALSE]

\* lifespan, startup: both loops become tasks; their bodies have not run yet
LifeCreateTasks ==
    /\ lc.task = "none"
    /\ cu.task = "none"
    /\ lc' = [lc EXCEPT !.task = "created"]
    /\ cu' = [cu EXCEPT !.task = "created"]
    /\ UNCHANGED nonLife

\* (mutant) the mark takes effect although a flush call is in progress
LcMarkDuringFlush(c) ==
    /\ lc.task # "none"
    /\ lc' = [lc EXCEPT !.dirty = @ \cup {c}, !.unflushed = @ \cup {c}]
    /\ UNCHANGED cu
    /\ UNCHANGED nonLife

\* mark_for_flush: under _flush_lock, which is free whenever another coroutine
\* gets to run, the collection joins collections_to_flush.  unflushed is
\* history: the collections with a write that no flush issued since covers.
LcMark(c) ==
    /\ lc.task # "none"
    /\ lc.run = "none"
    /\ lc.lock = "none"
    /\ lc' = [lc EXCEPT !.dirty = @ \cup {c}, !.unflushed = @ \cup {c}]
    /\ UNCHANGED cu
    /\ UNCHANGED nonLife

\* start(): the first run of the body sets _running (or returns when it is
\* already set), every run tests it at the loop head; with marks present
\* _check_and_flush takes _flush_lock and hands due, the collections it
\* found due in iteration order, to _flush_collections; then sleep(0.1).
LcLoop(due) ==
    /\ lc.run = "none"
    /\ lc.task \in {"created", "sleeping"}
    /\ due \in UNION {Orders(S) : S \in SUBSET lc.dirty}
    /\ IF lc.task = "created" /\ lc.running
       THEN lc' = [lc EXCEPT !.task = "exited"]
       ELSE LET running == IF lc.task = "created" THEN TRUE ELSE lc.running
            IN  IF ~running
                THEN lc' = [lc EXCEPT !.task = "exited"]
                ELSE IF lc.dirty = {} \/ due = <<>>
                THEN lc' = [lc EXCEPT !.running = TRUE, !.task = "sleeping"]
                ELSE lc' = [lc EXCEPT !.running = TRUE, !.task = "pass",
                                      !.lock = "loop", !.run = "loop", !.by = "loop",
                                      !.todo = due, !.snap = due, !.tried = <<>>,
                                      !.failed = {}]
    /\ UNCHANGED cu
    /\ UNCHANGED nonLife

\* _flush_collections / flush_immediately: Collection.flush() is entered for
\* the next collection of the list
LcFlushCall ==
    /\ lc.run # "none"
    /\ lc.todo # <<>>
    /\ lc.flushing = "none"
    /\ lc' = [lc EXCEPT !.flushing = Head(lc.todo), !.unflushed = @ \ {Head(lc.todo)}]
    /\ UNCHANGED cu
    /\ UNCHANGED nonLife

\* (mutant) a flush that raises ends the walk over the list
LcFlushReturnAborts(ok) ==
    /\ lc.flushing # "none"
    /\ LET c == lc.flushing
           rest == IF ok THEN Tail(lc.todo) ELSE <<>>
       IN  lc' = [lc EXCEPT
                    !.flushing = "none",
                    !.todo = rest,
                    !.tried = Append(@, c),
                    !.failed = IF ok THEN @ ELSE @ \cup {c},
                    !.dirty = IF ok THEN @ \ {c} ELSE @,
                    !.unflushed = IF ok THEN @ ELSE @ \cup ({c} \cap lc.dirty),
                    !.run = IF rest = <<>> THEN "none" ELSE @,
                    !.lock = IF rest = <<>> THEN "none" ELSE @,
                    !.task = IF rest = <<>> /\ lc.run = "loop" THEN "sleeping" ELSE @,
                    !.stop = IF rest = <<>> /\ lc.run = "stop" THEN "returned" ELSE @]
    /\ UNCHANGED cu
    /\ UNCHANGED nonLife

\* Collection.flush() returns (ok) or raises: on return the mark is discarded,
\* an exception is logged inside the loop over the list, which goes on.  After
\* the last collection the caller continues to its next suspension: the loop
\* leaves _flush_lock and sleeps, stop returns, flush_immediately returns or
\* raises.
LcFlushReturn(ok) ==
    /\ lc.flushing # "none"
    /\ LET c == lc.flushing
           rest == Tail(lc.todo)
       IN  lc' = [lc EXCEPT
                    !.flushing = "none",
                    !.todo = rest,
                    !.tried = Append(@, c),
                    !.failed = IF ok THEN @ ELSE @ \cup {c},
                    !.dirty = IF ok THEN @ \ {c} ELSE @,
                    !.unflushed = IF ok THEN @ ELSE @ \cup ({c} \cap lc.dirty),
                    !.run = IF rest = <<>> THEN "none" ELSE @,
                    !.lock = IF rest = <<>> THEN "none" ELSE @,
                    !.task = IF rest = <<>> /\ lc.run = "loop" THEN "sleeping" ELSE @,
                    !.stop = IF rest = <<>> /\ lc.run = "stop" THEN "returned" ELSE @]
    /\ UNCHANGED cu
    /\ UNCHANGED nonLife

\* flush_immediately: the flush of one collection, marked or not
LcImmediate(c) ==
    /\ lc.task # "none"
    /\ lc.run = "none"
    /\ lc' = [lc EXCEPT !.run = "imm", !.by = "imm", !.todo = <<c>>, !.snap = <<c>>,
                        !.tried = <<>>, !.failed = {}]
    /\ UNCHANGED cu
    /\ UNCHANGED nonLife

\* stop(): clears _running and, without taking _flush_lock, hands
\* list(collections_to_flush) to _flush_collections
LcStop(order) ==
    /\ lc.task # "none"
    /\ lc.run = "none"
    /\ lc.stop = "none"
    /\ order \in Orders(lc.dirty)
    /\ lc' = [lc EXCEPT !.running = FALSE, !.by = "stop", !.todo = order,
                        !.snap = order, !.tried = <<>>, !.failed = {},
                        !.run = IF order = <<>> THEN "none" ELSE "stop",
                        !.stop = IF order = <<>> THEN "returned" ELSE "running"]
    /\ UNCHANGED cu
    /\ UNCHANGED nonLife

\* lifespan, shutdown: flush_task.cancel() after stop returned; the task ends
\* at its sleep, or never runs
LcCancel ==
    /\ lc.stop = "returned"
    /\ lc.run = "none"
    /\ lc.task \in {"created", "sleeping"}
    /\ lc' = [lc EXCEPT !.task = "cancelled"]
    /\ UNCHANGED cu
    /\ UNCHANGED nonLife

\* auto_cleanup_loop: the first run of the body sets _cleanup_running, tests
\* it and sleeps for the interval
CuStartBody ==
    /\ cu.task = "created"
    /\ cu' = [cu EXCEPT !.running = TRUE, !.task = "sleeping"]
    /\ UNCHANGED lc
    /\ UNCHANGED nonLife

\* the sleep ends and the passes begin, the flag is not read here; E: the
\* partitions get_expired_partitions reports
CuWake(E) ==
    /\ cu.task = "sleeping"
    /\ cu' = [cu EXCEPT !.task = "pass", !.expired = E, !.tried = {}, !.failed = {},
                        !.lateStart = @ \/ cu.stopReq]
    /\ UNCHANGED lc
    /\ UNCHANGED nonLife

\* (mutant) a release that fails ends the pass and the loop
CuPassEndStops(F) ==
    /\ cu.task = "pass"
    /\ F \subseteq cu.expired
    /\ cu' = [cu EXCEPT !.tried = IF F = {} THEN cu.expired ELSE F, !.failed = F,
                        !.task = IF cu.running /\ F = {} THEN "sleeping" ELSE "exited",
                        !.running = cu.running /\ F = {}]
    /\ UNCHANGED lc
    /\ UNCHANGED nonLife

\* _cleanup_by_ttl ran over every expired partition, the unloads of F failed
\* (unload_partition returns False, or the exception is logged per partition);
\* then the loop head tests the flag: sleep again, or leave through finally
CuPassEnd(F) ==
    /\ cu.task = "pass"
    /\ F \subseteq cu.expired
    /\ cu' = [cu EXCEPT !.tried = cu.expired, !.failed = F,
                        !.task = IF cu.running THEN "sleeping" ELSE "exited"]
    /\ UNCHANGED lc
    /\ UNCHANGED nonLife

\* stop_cleanup_loop
CuStop ==
    /\ cu.task # "none"
    /\ ~cu.stopReq
    /\ cu' = [cu EXCEPT !.running = FALSE, !.stopReq = TRUE]
    /\ UNCHANGED lc
    /\ UNCHANGED nonLife

\* lifespan, shutdown: cleanup_task.cancel() after stop_cleanup_loop; the
\* CancelledError passes every except Exception and leaves through finally
CuCancel ==
    /\ cu.stopReq
    /\ cu.task \in {"created", "sleeping", "pass"}
    /\ cu' = [cu EXCEPT !.task = "cancelled", !.running = FALSE]
    /\ UNCHANGED lc
    /\ UNCHANGED nonLife

LifeNext ==
    \/ LifeCreateTasks
    \/ \E c \in LcColls : LcMark(c)
    \/ \E c \in LcColls : LcImmediate(c)
    \/ \E order \in UNION {Orders(S) : S \in SUBSET LcColls} : LcStop(order)
    \/ LcCancel
    \/ CuStop
    \/ CuCancel
    \/ \E due \in UNION {Orders(S) : S \in SUBSET LcColls} : LcLoop(due)
    \/ LcFlushCall
    \/ \E ok \in BOOLEAN : LcFlushReturn(ok)
    \/ CuStartBody
    \/ \E E \in SUBSET Keys : CuWake(E)
    \/ \E F \in SUBSET Keys : CuPassEnd(F)

\* ---------------------------------------------------------------------------
\* search_documents: one request after the other.  What the partition cache,
\* the embedding service and the two stores answer is input.

SrIdle ==
    [pc |-> "idle", n |-> 0, ensured |-> "none", searched |-> FALSE, joined |-> FALSE,
     status |-> 0]

InitSearch == sr = SrIdle

\* the request arrives; utility.load_state tells whether the collection is
\* loaded (an exception counts as not loaded)
SrStart(collLoaded) ==
    /\ sr.pc \in {"idle", "done"}
    /\ sr.n < MaxSearches
    /\ sr' = [pc |-> IF collLoaded THEN "ensure" ELSE "load", n |-> sr.n + 1,
              ensured |-> "none", searched |-> FALSE, joined |-> FALSE, status |-> 0]
    /\ UNCHANGED nonSr

\* Step 0: ensure_partition_loaded answers res and the answer is dropped, or
\* (collection not loaded) collection.load and the two redis writes, ok or
\* raising; then the query text is validated: the HTTPException of an empty
\* query is caught by the outer except Exception and raised again as 500
SrLoad(res, ok, empty) ==
    /\ sr.pc \in {"ensure", "load"}
    /\ sr.pc = "ensure" => ok
    /\ sr.pc = "load" => res
    /\ sr' = [sr EXCEPT
                !.ensured = IF sr.pc = "ensure" THEN (IF res THEN "true" ELSE "false")
                            ELSE "none",
                !.pc = IF ok /\ ~empty THEN "embed" ELSE "done",
                !.status = IF ok /\ ~empty THEN 0 ELSE 500]
    /\ UNCHANGED nonSr

\* Step 1: embedding_service.embed
SrEmbed(ok) ==
    /\ sr.pc = "embed"
    /\ sr' = [sr EXCEPT !.pc = IF ok THEN "search" ELSE "done",
                        !.status = IF ok THEN 0 ELSE 500]
    /\ UNCHANGED nonSr

\* Step 2: collection.search on the partition; no hit ends the request with
\* an empty success
SrSearch(ok, hits) ==
    /\ sr.pc = "search"
    /\ sr' = [sr EXCEPT !.searched = TRUE,
                        !.pc = IF ok /\ hits THEN "meta" ELSE "done",
                        !.status = IF ~ok THEN 500 ELSE IF hits THEN 0 ELSE 200]
    /\ UNCHANGED nonSr

\* Steps 3 and 4: the metadata query and the merge
SrMeta(ok) ==
    /\ sr.pc = "meta"
    /\ sr' = [sr EXCEPT !.pc = "done", !.joined = TRUE,
                        !.status = IF ok THEN 200 ELSE 500]
    /\ UNCHANGED nonSr

SrNext ==
    \/ \E collLoaded \in BOOLEAN : SrStart(collLoaded)
    \/ \E res, ok, empty \in BOOLEAN : SrLoad(res, ok, empty)
    \/ \E ok \in BOOLEAN : SrEmbed(ok)
    \/ \E ok, hits \in BOOLEAN : SrSearch(ok, hits)
    \/ \E ok \in BOOLEAN : SrMeta(ok)

vars == <<pmVars, flVars, sgVars, memVars, suVars, bVars, fmVars, rtVars, evVars,
          drVars, immVars, lifeVars, srVars>>

Init ==
    /\ InitPM /\ InitFL /\ InitSG /\ InitMem /\ InitSu /\ InitB /\ InitFm /\ InitRt
    /\ InitEv /\ InitDr /\ InitImm /\ InitLife /\ InitSearch

\* The partition manager with its callers and its cleanup loop
Next == PMNext

Spec == Init /\ [][Next]_vars

\* The callers of ensure_partition_loaded and direct unload_partition calls
NextEvict == EvNext

SpecEvict == Init /\ [][NextEvict]_vars

\* One Delete request and its response
NextDelete == DrNext

SpecDelete == Init /\ [][NextDelete]_vars

\* The flush batcher with its loop, the marking requests and immediate flushes
NextFlushNow == ImmNext

SpecFlushNow == Init /\ [][NextFlushNow]_vars

\* The search handler
NextSearch == SrNext

SpecSearch == Init /\ [][NextSearch]_vars

\* The two background tasks from their creation to shutdown; every scheduled
\* task step runs eventually (the event loop is first-in first-out)
NextLife == LifeNext

SpecLife ==
    /\ Init /\ [][NextLife]_vars
    /\ SF_vars(\E due \in UNION {Orders(S) : S \in SUBSET LcColls} : LcLoop(due))
    /\ WF_vars(LcFlushCall)
    /\ WF_vars(\E ok \in BOOLEAN : LcFlushReturn(ok))
    /\ WF_vars(CuStartBody)
    /\ WF_vars(\E E \in SUBSET Keys : CuWake(E))
    /\ WF_vars(\E F \in SUBSET Keys : CuPassEnd(F))

\* The flush batcher with its loop and the marking requests
NextFlush == FLNext

SpecFlush == Init /\ [][NextFlush]_vars

\* the write/delete coordinator alone
NextSaga == SGNext

SpecSaga == Init /\ [][NextSaga]_vars

\* Insert requests alone, cancellable
NextInsert == InsertNext

SpecInsert == Init /\ [][NextInsert]_vars

\* one memory-pressure pass alone
NextMem == MemNext

SpecMem == Init /\ [][NextMem]_vars

\* the startup reload alone
NextStartup == SuNext

SpecStartup == Init /\ [][NextStartup]_vars

\* one BatchInsert request alone
NextBatch == BNext

SpecBatch == Init /\ [][NextBatch]_vars

\* the metadata split of Insert alone
NextMeta == MetaInsert

SpecMeta == Init /\ [][NextMeta]_vars

\* one retry-wrapped call alone; every awaited call (the action, the backoff
\* sleep) answers in the end
NextRetry == RtNext

SpecRetry == Init /\ [][NextRetry]_vars /\ WF_vars(NextRetry)

\* ------------------------------------------------------------------ claims
\* C1: EnsureLoaded calls without force_reload on a key that is not evicted
\* meanwhile, with the load call succeeding, issue exactly one load call to
\* the vector store however they overlap, and every one returns true.
C1_Singleflight ==
    \A k \in Keys : ~disturbed[k] =>
        /\ loadCalls[k] <= 1
        /\ \A c \in Callers : (pc[c] = "done" /\ ckey[c] = k) =>
               (result[c] # "false" /\ loadCalls[k] = 1)

\* C1 witness: two overlapping calls on one key, one loaded it and the other
\* waited for the lock and found it loaded; one load call was issued.
C1_Witness ==
    \E k \in Keys :
        /\ ~disturbed[k] /\ loadCalls[k] = 1
        /\ pc["t1"] = "done" /\ ckey["t1"] = k /\ result["t1"] = "loaded"
        /\ pc["t2"] = "done" /\ ckey["t2"] = k /\ result["t2"] = "dcl"

\* C2: whenever EnsureLoaded returns true for a key, the partition is loaded
\* in the vector store at the moment of return.
C2_TrueMeansLoaded ==
    [][\A c \in Callers :
          (pc[c] # "done" /\ pc'[c] = "done" /\ result'[c] # "false")
              => ckey[c] \in milvusLoaded']_vars

\* C10: the TTL pass releases no partition whose access time, at the moment
\* of the release, is within the TTL (touched while the pass is running).
C10_TtlPassSparesTouched ==
    [][(cl' # cl /\ cl'.pc = "ttlUntrack" /\ Head(cl'.todo) \in milvusLoaded)
          => IsExpiredAt(now, accessT[Head(cl'.todo)])]_vars

C4_NoOrphanVectorsAfterFailure ==
    [][\A r \in Reqs :
         (/\ req[r].op \in {"insert", "batch"} /\ req[r].pc \in {"comp1", "comp2", "bcomp"}
          /\ req'[r].pc = "done")
             => \A j \in 1..Len(req[r].ids) :
                   req[r].ids[j] \notin rows' => vecs'[req[r].ids[j]] = 0]_vars

\* C5: an Insert whose (botId, contentName) already has a row (an earlier
\* Insert committed it) returns skipped and changes neither store: no row, no
\* embedding call, no vector, no flush mark; the row stays the only one.
C5_DuplicateInsertSkipped ==
    [][\A r \in Reqs, b \in Bots, n \in Names :
         (StartInsert(r, b, n) /\ RowsOf(b, n) # {})
             => /\ req'[r].pc = "done" /\ req'[r].status = "skipped"
                /\ UNCHANGED <<docOf, rows, vecs, nextId, marks, embeds>>
                /\ Cardinality(RowsOf(b, n)) = 1]_vars

C5_Witness ==
    \E r1 \in Reqs, r2 \in Reqs :
        /\ req[r1].op = "insert" /\ req[r1].pc = "done" /\ req[r1].status = "success"
        /\ req[r2].op = "insert" /\ req[r2].pc = "done" /\ req[r2].status = "skipped"
        /\ Cardinality(rows) = 1 /\ embeds = 1 /\ marks = 1
        /\ vecs[1] = 1 /\ vecs[2] = 0

\* C6: an Insert that passed the duplicate pre-check and then hits the unique
\* constraint (a concurrent identical Insert committed first) returns skipped,
\* not an error, and exactly one row of (botId, contentName) exists.
C6_UniqueViolationSkipped ==
    [][\A r \in Reqs :
         (/\ req[r].op = "insert" /\ req[r].pc = "pgInsert"
          /\ UniqueViolated(req[r].bot, req[r].names[1])
          /\ req'[r].pc = "done")
             => /\ req'[r].status = "skipped"
                /\ Cardinality(RowsOf(req[r].bot, req[r].names[1])) = 1
                /\ rows' = rows]_vars

C8_FlushOnlyAfterQuiet ==
    [][\A c \in Colls :
         (/\ c \in dirty /\ c \notin dirty'
          /\ fnow - dirtySince[c] < MaxWaitTicks)
             => fnow - lastChange[c] >= DelayTicks]_vars

\* C9: with the flush loop running and flush calls succeeding, a collection
\* never stays dirty and unflushed longer than maxWaitSeconds plus one poll
\* interval, however closely the MarkDirty calls follow each other.
C9_FlushCeiling ==
    \A c \in dirty :
        ~flushFailed => fnow - dirtySince[c] <= MaxWaitTicks + PollTicks

C9_Witness ==
    \E c \in Colls :
        /\ ~flushFailed
        /\ c \notin dirty /\ lastFlush[c] = fnow
        /\ fnow - dirtySince[c] >= MaxWaitTicks
        /\ lastChange[c] # NoTime /\ fnow - lastChange[c] < DelayTicks

C12_StartupTracksVectorStore ==
    suPc = "done" => (suTracked = suLoaded /\ suLoaded = suLoaded0)

\* C13: when a per-document BatchInsert returns, every input document is
\* reported in exactly one of inserted / skipped-duplicate / failed and
\* success_count + failure_count = total_documents; a document reported as
\* inserted has its row and its vectors whatever failed for the others; a
\* document whose embedding or vector step failed has no row, provided its
\* compensating delete did not fail as well.
C13_BatchFailureIsPerDocument ==
    bPc = "done" =>
        /\ bResp.total_documents = Len(bNames)
        /\ bResp.success_count + bResp.failure_count = bResp.total_documents
        /\ bResp.success_count = Len(bOk)
        /\ \A i \in 1..Len(bNames) :
              /\ Cardinality({k \in 1..Len(bOk) : bOk[k] = i}) + Cardinality({k \in 1..Len(bSkipped) : bSkipped[k] = i}) + Cardinality({k \in 1..Len(bFailed) : bFailed[k] = i}) = 1
              /\ Cardinality({k \in 1..Len(bOk) : bOk[k] = i}) = 1 => (i \in bRowOf /\ i \in bVecOf /\ bWhy[i] = "")
              /\ Cardinality({k \in 1..Len(bSkipped) : bSkipped[k] = i}) = 1 => (bWhy[i] = "dup" /\ i \notin bRowOf)
              /\ (bWhy[i] \in {"embed", "vec"} /\ i \notin bCompFailed) =>
                     (Cardinality({k \in 1..Len(bFailed) : bFailed[k] = i}) = 1 /\ i \notin bRowOf)

\* C13 witness: five new documents, only the embedding of document 3 failed:
\* 4 successes and 1 failure are reported, the other four have their rows
\* and vectors, document 3 has no row.
C13_Witness ==
    /\ bPc = "done" /\ Len(bNames) = 5 /\ bSkipped = <<>>
    /\ bWhy = <<"", "", "embed", "", "">>
    /\ bResp.success_count = 4 /\ bResp.failure_count = 1
    /\ bRowOf = {1, 2, 4, 5} /\ bVecOf = {1, 2, 4, 5}

\* C14 (as stated): the metadata written with the vector entities is exactly
\* the restriction of the request's metadata to the keys on the allow-list,
\* and the Document row stores the metadata in full.
C14_VectorMetadataIsRestriction ==
    /\ fmVec = [k \in DOMAIN fmMeta \cap fmAllow |-> fmMeta[k]]
    /\ JsonLoads(fmRow) = fmMeta

\* C14 (amended): the metadata written with the vector entities is the
\* restriction of the request's metadata to the keys on the allow-list whose
\* value is not null, with the same values, and the Document row stores the
\* metadata in full, null-valued fields included.
C14_VectorMetadataIsNonNullRestriction ==
    /\ DOMAIN fmVec = {k \in DOMAIN fmMeta : k \in fmAllow /\ fmMeta[k] # None}
    /\ \A k \in DOMAIN fmVec : fmVec[k] = fmMeta[k]
    /\ JsonLoads(fmRow) = fmMeta

\* C14 witness: {content_type: pdf, author: x} with only content_type on the
\* allow-list: the vectors carry {content_type: pdf}, the row both fields.
C14_Witness ==
    /\ fmAllow = {"content_type"}
    /\ fmMeta = [k \in {"content_type", "author"} |->
                    IF k = "content_type" THEN "pdf" ELSE "x"]
    /\ fmVec = [k \in {"content_type"} |-> "pdf"]
    /\ JsonLoads(fmRow) = fmMeta

\* C15: a Delete that answers with a response reports status success when
\* all requested content names were deleted, partial_success when some but
\* not all were, and failed when none were, whether all, some or none of the
\* requested names existed.
C15_DeleteStatusMatchesOutcome ==
    \A r \in Reqs :
        (req[r].op = "delete" /\ req[r].pc = "done" /\ req[r].deleted # "") =>
            /\ req[r].deleted = "all" => req[r].status = "success"
            /\ req[r].deleted = "some" => req[r].status = "partial_success"
            /\ req[r].deleted = "none" => req[r].status = "failed"

\* C16: a retry-wrapped call with max_retries = N invokes the underlying
\* action at most N+1 times; it returns the first successful result without
\* a further invocation; when every attempt fails it raises the error of the
\* last attempt; and it always ends, returning or raising.
C16_RetryBounded ==
    /\ [](/\ rtCalls <= rtN + 1
          /\ rtPc # "none"
          /\ rtPc = "returned" => (rtCalls = Len(rtErrs) + 1 /\ rtOut \in Values)
          /\ rtPc = "raised" => (/\ rtCalls = rtN + 1 /\ Len(rtErrs) = rtN + 1
                                 /\ rtOut = rtErrs[rtN + 1]))
    /\ [][(rtPc \in {"returned", "raised"}) => (rtCalls' = rtCalls)]_vars
    /\ (rtPc = "try") ~> (rtPc \in {"returned", "raised"})

\* C16 witness: max_retries = 3, three failed attempts and a success at the
\* fourth invocation.
C16_Witness ==
    /\ rtPc = "returned" /\ rtN = 3 /\ rtCalls = 4 /\ Len(rtErrs) = 3

\* C17: when a cancellation aborts Insert inside the embedding or the
\* vector-insert retry sequence, after the relational transaction committed,
\* the committed Document row has been deleted when the abort is surfaced.
C17_CancelCompensates ==
    [][\A r \in Reqs :
         (req[r].pc # "done" /\ req'[r].pc = "done" /\ req'[r].status = "cancelled")
             => req[r].ids[1] \notin rows']_vars

\* C19: in Insert, an exception raised once the relational row exists and
\* outside the embedding and vector-insert steps (for example by MarkDirty
\* after the vector insert succeeded) is answered only after the compensating
\* delete of that row was awaited, once; when that delete succeeds the row is
\* gone before the error reaches the caller.
C19_LateExceptionCompensates ==
    [][\A r \in Reqs :
         (req[r].pc # "done" /\ req'[r].pc = "done" /\ req'[r].failedAt = "post")
             => /\ req[r].pc = "comp2"
                /\ req'[r].comps = 1
                /\ req'[r].status = "error"
                /\ req'[r].rolledBack => req[r].ids[1] \notin rows']_vars

\* C19 witness: an Insert whose vectors were written, then failed after the
\* vector insert; its row was deleted by the compensation.
C19_Witness ==
    \E r \in Reqs :
        /\ req[r].op = "insert" /\ req[r].pc = "done" /\ req[r].failedAt = "post"
        /\ req[r].rolledBack /\ req[r].comps = 1
        /\ rows = {} /\ vecs[1] = 1

\* C20: when the compensating delete of Insert itself fails, the error
\* surfaced to the caller is still the original failure (the embedding error
\* or the vector-insert error) and the compensating delete was attempted
\* exactly once.
C20_CompensationFailureKeepsOriginalError ==
    \A r \in Reqs :
        (req[r].op = "insert" /\ req[r].pc = "done" /\ req[r].compFailed) =>
            /\ req[r].surfaced = req[r].failedAt
            /\ req[r].comps = 1

\* C18: every Insert, BatchInsert, Delete or DeleteBotData that changed the
\* vector store marks its collection dirty before it returns (and every dirty
\* collection is flushed in the end while the flush loop runs).  The first
\* half, on the handlers: the step in which a request that wrote or deleted
\* vectors ends is a step that called mark_for_flush.
C18_ChangeIsMarkedDirty ==
    [][\A r \in Reqs :
         (/\ req[r].pc # "done" /\ req'[r].pc = "done"
          /\ req'[r].op # "none"
          /\ (req[r].changed \/ (vecs' # vecs)))
             => marks' = marks + 1]_vars

\* C21: ensure_partition_loaded on a key tracked as loaded, force_reload
\* false, takes the fast path: the call goes straight to update_access_time
\* without taking the lock, it issues no call to the vector store (no load,
\* the loaded set of Milvus is untouched), and the step that returns writes
\* nothing but the access time of that key, set to now, and returns True.
C21_FastPathOnlyTouches ==
    [][\A c \in Callers :
        /\ (/\ pc[c] \in {"idle", "done"}
            /\ pc'[c] \notin {"idle", "done"}
            /\ ckey'[c] \in tracked
            /\ ~cforce'[c])
           => (/\ pc'[c] = "touch1"
               /\ UNCHANGED <<milvusLoaded, redisVars, locked, loadCalls>>)
        /\ (pc[c] = "touch1" /\ pc'[c] # "touch1")
           => (/\ pc'[c] = "done"
               /\ result'[c] = "fast"
               /\ accessT' = [accessT EXCEPT ![ckey[c]] = now]
               /\ \A k \in Keys \ {ckey[c]} : akExp'[k] = akExp[k]
               /\ UNCHANGED <<milvusLoaded, tracked, pkExp, locked, loadCalls>>)]_vars

\* a caller has returned by the fast path on a key that one load had tracked
C21_Witness ==
    \E c \in Callers :
        /\ pc[c] = "done"
        /\ result[c] = "fast"
        /\ ckey[c] \in tracked
        /\ accessT[ckey[c]] = now
        /\ now > 0
        /\ loadCalls[ckey[c]] = 1

C23_LoadRecordsItsTime ==
    [][\A c \in Callers :
        /\ (pc[c] \in {"setExists", "setPipe"} /\ pc'[c] = "done")
           => (/\ ckey[c] \in tracked'
               /\ accessT'[ckey[c]] = ccap[c])
        /\ (pc[c] = "check2" /\ pc'[c] = "setExists")
           => (/\ milvusLoaded' = milvusLoaded \cup {ckey[c]}
               /\ ccap'[c] = now)]_vars

C25_EvictIdempotent ==
    [][/\ (/\ ev'.n = ev.n + 1
           /\ ev'.key \notin tracked \cup milvusLoaded
           /\ accessT[ev'.key] = NoTime)
          => (/\ UNCHANGED <<redisVars, milvusLoaded>>
              /\ ev'.pc \in {"untrack", "done"})
       /\ (/\ ev.pc = "untrack" /\ ev'.pc = "done"
           /\ ev.key \notin tracked /\ accessT[ev.key] = NoTime)
          => (/\ UNCHANGED <<redisVars, milvusLoaded>>
              /\ ev'.result \in BOOLEAN)]_vars

\* a second unload_partition on the key the first one evicted returned True
C25_Witness ==
    /\ ev.pc = "done"
    /\ ev.result
    /\ ev.n = 2
    /\ calls = 1
    /\ loadCalls[ev.key] = 1
    /\ disturbed[ev.key]
    /\ ev.key \notin tracked \cup milvusLoaded
    /\ \A c \in Callers : pc[c] \in {"idle", "done"} /\ result[c] \in {"none", "loaded"}

\* C26: ensure_partition_loaded calls cannot deadlock on the partition
\* locks.  A key's lock is held by exactly one caller working on that key,
\* or by none when it is free; a caller works on one key, so it holds one
\* lock at most; a caller starts waiting only when the lock of its own key
\* is taken or already waited for, whatever the locks of other keys, and a
\* waiting caller can take its lock as soon as that lock is free.
C26_NoDeadlockOnLocks ==
    /\ [](\A k \in Keys :
            Cardinality({c \in Callers :
                /\ ckey[c] = k
                /\ pc[c] \in {"check2", "touch2", "setExists", "setPipe"}})
            = IF k \in locked THEN 1 ELSE 0)
    /\ [](\A c \in Callers :
            (pc[c] = "lock" /\ ckey[c] \notin locked) => ENABLED AcquireLock(c))
    /\ [][\A c \in Callers :
            (pc[c] # "lock" /\ pc'[c] = "lock")
            => \/ ckey'[c] \in locked
               \/ \E o \in Callers \ {c} : pc[o] = "lock" /\ ckey[o] = ckey'[c]]_vars

\* two callers hold the locks of two different keys at the same time
C26_Witness ==
    /\ pc["t1"] \in {"check2", "setExists", "setPipe"}
    /\ pc["t2"] \in {"check2", "setExists", "setPipe"}
    /\ ckey["t1"] # ckey["t2"]
    /\ locked = Keys

\* C27: in insert_document the relational transaction has committed the
\* Document row before the embedding is generated and before a vector insert
\* is issued: a step of an Insert request that counts an embedding or writes
\* vectors is taken by a request that holds the doc_id of its own committed
\* row, and vectors are written only under the doc_id of such a row.
C27_CommitBeforeEmbedAndVectors ==
    [][/\ \A r \in Reqs :
            (/\ req[r].op = "insert"
             /\ req'[r] # req[r]
             /\ (embeds' # embeds \/ vecs' # vecs))
            => (/\ req[r].pc \in {"embed", "vecRetry"}
                /\ Len(req[r].ids) = 1
                /\ req[r].ids[1] \in rows
                /\ docOf[req[r].ids[1]] = [bot |-> req[r].bot, name |-> req[r].names[1]])
       /\ \A i \in DocIds :
            vecs'[i] # vecs[i]
            => (/\ i \in rows
                /\ \E r \in Reqs : req'[r] # req[r] /\ req[r].ids = <<i>>)]_vars

\* an Insert has answered success: its row is committed and its vectors are
\* written once, after one embedding
C27_Witness ==
    \E r \in Reqs, i \in DocIds :
        /\ req[r].op = "insert"
        /\ req[r].pc = "done"
        /\ req[r].status = "success"
        /\ i \in rows
        /\ vecs[i] = 1
        /\ embeds >= 1

\* C28: in the response of delete_document every requested content name is
\* in exactly one of successful_content_names and failed_content_names, a
\* requested name that is not stored is in the failed list, and
\* total_success + total_failed equals total_requested, for any request list,
\* repeated names and names found through the http/https lookup included.
C28_DeleteResponseAccounts ==
    dr.pc = "done" =>
        /\ \A n \in SeqSet(dr.names) :
              (n \in dr.resp.successful) # (n \in dr.resp.failed)
        /\ \A n \in SeqSet(dr.names) \ dr.stored : n \in dr.resp.failed
        /\ dr.resp.total_success + dr.resp.total_failed = dr.resp.total_requested

\* C29: batch insert with supplied embeddings is all-or-nothing: when the
\* vector batch insert has failed after the relational batch transaction
\* committed, and no delete of the rollback loop raised, no Document row of
\* the batch is left when the error is returned, whatever bots the
\* documents of the batch belong to.
C29_BatchRollbackDeletesEveryRow ==
    [][\A r \in Reqs :
         (/\ req[r].op = "batch" /\ req[r].pc = "bcomp"
          /\ req'[r].pc = "done" /\ req'[r].rolledBack)
             => \A j \in 1..Len(req[r].ids) : req[r].ids[j] \notin rows']_vars

\* C30: a flush that succeeds, in the loop's poll or in flush_immediately,
\* clears the collection's mark and sets last_flush_time to the current
\* time; a flush that fails leaves the mark and last_flush_time as they were
\* (the poll records nothing but the failure, flush_immediately raises), and
\* a collection that was due and is still marked stays due for the later
\* polls unless it is marked again.
C30_FlushOutcomeBookkeeping ==
    [][/\ \A c \in Colls :
            /\ wake' # wake =>
                 IF c \in dirty /\ ShouldFlush(c)
                 THEN \/ c \notin dirty' /\ lastFlush'[c] = fnow
                      \/ c \in dirty' /\ lastFlush'[c] = lastFlush[c] /\ flushFailed'
                 ELSE (c \in dirty' <=> c \in dirty) /\ lastFlush'[c] = lastFlush[c]
            /\ (/\ c \in dirty /\ ShouldFlush(c) /\ c \in dirty'
                /\ lastChange'[c] = lastChange[c])
               => (ShouldFlush(c))'
       /\ imm' # imm =>
            \/ /\ imm'.result = "returned"
               /\ \E c \in Colls :
                    /\ dirty' = dirty \ {c}
                    /\ lastFlush' = [lastFlush EXCEPT ![c] = fnow]
            \/ /\ imm'.result = "raised"
               /\ UNCHANGED <<dirty, lastFlush>>]_vars

\* a flush failed in the loop, flush_immediately raised, the collection
\* stayed marked, and a later poll has flushed it
C30_Witness ==
    \E c \in Colls :
        /\ flushFailed
        /\ imm.result = "raised"
        /\ c \notin dirty
        /\ lastFlush[c] = fnow
        /\ fnow > dirtySince[c]
        /\ dirtySince[c] # NoTime

\* C31: AutoFlusher.stop attempts a flush of every collection that is dirty
\* when it is called; a flush that fails is logged and prevents neither the
\* remaining flushes nor the return of stop; when all those flushes succeed
\* the dirty set is empty when stop returns.
C31_StopFlushesEveryDirtyCollection ==
    /\ [][/\ (lc.stop = "none" /\ lc'.stop # "none") =>
                /\ {lc'.snap[i] : i \in 1..Len(lc'.snap)} = lc.dirty
                /\ ~lc'.running
          /\ (lc.stop # "returned" /\ lc'.stop = "returned") =>
                /\ lc'.tried = lc'.snap
                /\ lc'.dirty = lc'.failed
                /\ (lc'.failed = {} => lc'.dirty = {})]_vars
    /\ (lc.stop = "running" ~> lc.stop = "returned")

\* stop has returned after two flushes of which the first one failed
C31_Witness ==
    /\ lc.stop = "returned"
    /\ lc.by = "stop"
    /\ Len(lc.tried) = 2
    /\ lc.tried[1] \in lc.failed
    /\ lc.tried[2] \notin lc.failed
    /\ lc.dirty = {lc.tried[1]}

\* C32: the flusher's mutex is held only across map mutations and never while
\* a flush call to the vector store is in progress.
C32_LockNotHeldAcrossFlush ==
    ~(lc.lock # "none" /\ lc.flushing # "none")

C39_NoDirtyMarkLost ==
    lc.unflushed \subseteq lc.dirty

\* a collection was flushed with success by the loop and marked again while
\* the pass that flushed it was still the last one
C39_Witness ==
    /\ lc.by = "loop" /\ lc.run = "none"
    /\ \E c \in LcColls :
         /\ c \in {lc.tried[i] : i \in 1..Len(lc.tried)} \ lc.failed
         /\ c \in lc.unflushed
         /\ c \in lc.dirty

\* C35: in a retry-wrapped call the wait after the k-th failed attempt (k from
\* 0) is backoff * 2^k, no wait follows the final failed attempt, and the
\* total wait on exhaustion is backoff * (2^maxRetries - 1): 2 + 4 + 8 = 14
\* seconds for maxRetries = 3 and backoff = 2.
C35_BackoffSeries ==
    /\ \A k \in 1..Len(rtWaits) : rtWaits[k] = rtBackoff * (2 ^ (k - 1))
    /\ Len(rtWaits) <= rtN
    /\ Len(rtWaits) = IF rtPc = "sleep" THEN rtAttempt + 1 ELSE rtAttempt
    /\ rtPc = "raised" =>
          /\ Len(rtErrs) = rtN + 1
          /\ Len(rtWaits) = rtN
          /\ rtWaited = rtBackoff * ((2 ^ rtN) - 1)
    /\ (rtPc = "raised" /\ rtN = 3 /\ rtBackoff = 2) =>
          /\ rtWaits = <<2, 4, 8>>
          /\ rtWaited = 14

\* a call with max_retries = 3 and backoff = 2 has failed four times
C35_Witness ==
    /\ rtPc = "raised"
    /\ rtN = 3
    /\ rtBackoff = 2
    /\ rtCalls = 4
    /\ rtWaited = 14

\* C36: when EnsureLoaded returns false for the partition of a search request,
\* the search path issues no search call against the vector store for that
\* partition and ends the request with a service error.
C36_FailedLoadStopsSearch ==
    sr.ensured = "false" =>
        /\ ~sr.searched
        /\ sr.pc = "done" => sr.status = 500

\* C37: a partition that is loaded in the vector store and tracked stays
\* tracked while time passes: the expiry of the tracking store's own keys
\* never removes the record of a still-loaded partition.
C37_ExpiryKeepsLoadedTracked ==
    [][now' # now => \A k \in tracked \cap milvusLoaded : k \in tracked']_vars

\* C38: when the vector store's release call fails during an eviction, the
\* partition's tracked-loaded state is left as it was, so that a later pass
\* retries it; this holds for the TTL pass of the background loop too.
C38_FailedReleaseKeepsTracking ==
    [][\A k \in cl.failed : k \in tracked /\ k \in milvusLoaded => k \in tracked']_vars

\* C40: when insert_vectors_with_retry or batch_insert_vectors_with_retry has
\* returned successfully, the vector store holds exactly one copy of the chunk
\* vectors of each document of the call, also after attempts that failed
\* part-way.
C40_RetriedInsertWritesOnce ==
    [][\A r \in Reqs :
         (/\ req[r].pc # "done"
          /\ req'[r].op \in {"insert", "batch"}
          /\ req'[r].pc = "done"
          /\ req'[r].status = "success")
             => \A j \in 1..Len(req[r].ids) : vecs'[req[r].ids[j]] = 1]_vars

====
